---- MODULE Spec2Model ----
(***************************************************************************)
(* A model of the CartoType text engine (cartotype_string.h): the          *)
(* lexicographic 5-way compare, fuzzy matching, the attribute sub-format,  *)
(* abbreviation, the folding iterator and the UTF-8/UTF-16 conversions.    *)
(* Each part has its own variables and its own specification; a            *)
(* specification keeps the variables of the other parts at their idle      *)
(* values.                                                                 *)
(***************************************************************************)
EXTENDS Integers, Sequences, FiniteSets, TLC

VARIABLES
    \* lexicographic compare (MString::Compare(const MString&))
    cmpThis, cmpOther, cmpResult, cmpReverse, cmpDone,
    \* fuzzy matching (MString::FuzzyMatch, MString::FuzzyCompare)
    fzText1, fzText2, fzMax, fzMatch, fzDistance, fzDone,
    \* attribute sub-format: the text, what it should hold, the calls made
    \* and a caller's enumeration cursor
    atText, atExpect, atSetKeys, atRepeat, atCalls, atPos, atYield, atEnd,
    \* abbreviation: the text as given, the text now, the text before the
    \* latest Abbreviate, the dictionary, aDeleteWords, and how far the caller is
    abOriginal, abText, abBefore, abDict, abDelete, abPhase,
    \* folding: the inner iterator's text and position, the method, the
    \* FoldingIterator's members, the code and result of the latest call, the
    \* codes read so far, the first iterator's output, and the pass (1 or 2)
    fdText, fdPos, fdMethod, iCaseVariant, iCaseVariantLength,
    iCaseVariantIndex, fdCode, fdResult, fdOut, fdFirst, fdPass,
    \* conversion: the scalar values of a text, the string holding them, its
    \* UTF-8 and UTF-16 forms, the lengths given to the constructors, the
    \* strings constructed, and the calls made
    ucScalars, ucText, ucUtf8, ucUtf16, ucLength8, ucLength16, ucFrom8,
    ucFrom16, ucDone,
    \* compare with a method: the two texts, the method, the two
    \* FoldingIterators, the result, and where the call is
    cmText1, cmText2, cmMethod, cmIter1, cmIter2, cmResult, cmState,
    \* find: the string searched, the search term, the method, the offset
    \* returned, the end offset returned, and whether Find has been called
    fnText, fnString, fnMethod, fnPos, fnEndPos, fnDone,
    \* wild-card match: the text, the pattern, the positions in both, the
    \* position of the latest '*' and of the text when it was met, the result
    wmText, wmWildText, wmTextPos, wmWildPos, wmStarPos, wmStarTextPos,
    wmResult,
    \* storage: the kind of string, the build, what unwritten memory holds,
    \* the factor by which a String allocates, the members iLength,
    \* iMaxLength and iReserved, the memory, whether a String's text is in a
    \* separate allocation, the latest call and its argument, and whether an
    \* assertion has ended the program
    stKind, stBuild, stFill, stGrowth, iLength, iMaxLength, iReserved, stMem,
    stHeap, stOp, stArg, stAborted,
    \* a StringMatchMethod: its member m_flags, m_flags before the latest
    \* operation, the operation and its argument, and what it returned
    m_flags, mmBefore, mmOp, mmArg, mmReturned,
    \* an InputStream: its member m_file_pos_bytes and the value it had
    \* before the latest call, the bytes not yet read, the latest call, its
    \* argument, what it threw, the bytes of the integer it read (the most
    \* significant first) and the number it returned
    m_file_pos_bytes, isBefore, isData, isOp, isArg, isThrown, isValue, isReturned,
    \* ExpressionValue::Compare: the two values, the method, what the call
    \* returned and whether it has been made
    exThis, exOther, exMethod, exResult, exDone,
    \* the compare overloads and the relational operators: the string, the
    \* other text, and what each call made so far returned
    coThis, coText, coResult,
    \* a VariableDictionary: its member iDictionary, the value most recently
    \* set for each name set so far, the latest call and its argument, what
    \* it returned, and the caller's aValue
    iDictionary, vdLatest, vdOp, vdArg, vdFound, vdValue

cmpVars == <<cmpThis, cmpOther, cmpResult, cmpReverse, cmpDone>>

fzVars == <<fzText1, fzText2, fzMax, fzMatch, fzDistance, fzDone>>

atVars == <<atText, atExpect, atSetKeys, atRepeat, atCalls, atPos, atYield, atEnd>>

abVars == <<abOriginal, abText, abBefore, abDict, abDelete, abPhase>>

fdVars == <<fdText, fdPos, fdMethod, iCaseVariant, iCaseVariantLength,
           iCaseVariantIndex, fdCode, fdResult, fdOut, fdFirst, fdPass>>

ucVars == <<ucScalars, ucText, ucUtf8, ucUtf16, ucLength8, ucLength16,
           ucFrom8, ucFrom16, ucDone>>

cmVars == <<cmText1, cmText2, cmMethod, cmIter1, cmIter2, cmResult, cmState>>

fnVars == <<fnText, fnString, fnMethod, fnPos, fnEndPos, fnDone>>

wmVars == <<wmText, wmWildText, wmTextPos, wmWildPos, wmStarPos,
           wmStarTextPos, wmResult>>

stVars == <<stKind, stBuild, stFill, stGrowth, iLength, iMaxLength,
           iReserved, stMem, stHeap, stOp, stArg, stAborted>>

mmVars == <<m_flags, mmBefore, mmOp, mmArg, mmReturned>>

isVars == <<m_file_pos_bytes, isBefore, isData, isOp, isArg, isThrown, isValue, isReturned>>

exVars == <<exThis, exOther, exMethod, exResult, exDone>>

coVars == <<coThis, coText, coResult>>

vdVars == <<iDictionary, vdLatest, vdOp, vdArg, vdFound, vdValue>>

vars == <<cmpVars, fzVars, atVars, abVars, fdVars, ucVars, cmVars, fnVars,
          wmVars, stVars, mmVars, isVars, exVars, coVars, vdVars>>

(***************************************************************************)
(* General helpers.                                                        *)
(***************************************************************************)

Min(a, b) == IF a < b THEN a ELSE b

Max(a, b) == IF a > b THEN a ELSE b

\* The bitwise and, and the bitwise or, of two non-negative integers.
RECURSIVE BitAnd(_, _)
BitAnd(a, b) ==
    IF a = 0 \/ b = 0 THEN 0
    ELSE (a % 2) * (b % 2) + 2 * BitAnd(a \div 2, b \div 2)

RECURSIVE BitOr(_, _)
BitOr(a, b) ==
    IF a = 0 THEN b
    ELSE IF b = 0 THEN a
    ELSE Max(a % 2, b % 2) + 2 * BitOr(a \div 2, b \div 2)

\* All sequences over S of length 0..n.
SeqsUpTo(S, n) == UNION {[1..k -> S] : k \in 0..n}

(***************************************************************************)
(* Part 1: MString::Compare(const MString&), the lexicographic compare.    *)
(***************************************************************************)

\* Longest string compared.
MaxLen == 3

\* UTF-16 code units used: two small ones and one with the top bit set, so
\* that an unsigned and a signed 16-bit comparison differ.
CmpUnits == {1, 2, 32768}

CmpStrings == SeqsUpTo(CmpUnits, MaxLen)

\* A 16-bit unit read as a signed value: what a comparison of int16_t would see.
AsSigned16(x) == IF x >= 32768 THEN x - 65536 ELSE x

\* The units compared as int16_t.
UnitLessSigned(x, y) == AsSigned16(x) < AsSigned16(y)

\* `*p < *q` on uint16_t.
UnitLess(x, y) == x < y

\* `>=` written for `>`.
UnitGreaterOrEqual(x, y) == x >= y

\* `*p > *q` on uint16_t.
UnitGreater(x, y) == x > y

\* The two tests after the loop with their results exchanged.
CompareTailSwapped(n, m) == IF m # 0 THEN 1 ELSE IF n # 0 THEN -1 ELSE 0

\* The code after the loop: what is left of either string decides.
CompareTail(n, m) == IF m # 0 THEN -1 ELSE IF n # 0 THEN 1 ELSE 0

\* The loop of Compare: n and m count the units left, i is the offset of p and
\* q from the start of the data (1-based here).
RECURSIVE CompareLoop(_, _, _, _, _)
CompareLoop(a, b, n, m, i) ==
    IF n # 0 /\ m # 0
    THEN IF UnitLess(a[i], b[i]) THEN -2
         ELSE IF UnitGreater(a[i], b[i]) THEN 2
         ELSE CompareLoop(a, b, n - 1, m - 1, i + 1)
    ELSE CompareTail(n, m)

Compare(a, b) == CompareLoop(a, b, Len(a), Len(b), 1)

CmpIdle ==
    /\ cmpThis = <<>>
    /\ cmpOther = <<>>
    /\ cmpResult = 0
    /\ cmpReverse = 0
    /\ cmpDone = FALSE

CmpInit ==
    /\ cmpThis \in CmpStrings
    /\ cmpOther \in CmpStrings
    /\ cmpResult = 0
    /\ cmpReverse = 0
    /\ cmpDone = FALSE

\* A caller compares the two strings, each way round.
CompareStrings ==
    /\ ~cmpDone
    /\ cmpResult' = Compare(cmpThis, cmpOther)
    /\ cmpReverse' = Compare(cmpOther, cmpThis)
    /\ cmpDone' = TRUE
    /\ UNCHANGED <<cmpThis, cmpOther>>

(***************************************************************************)
(* Part 2: MString::FuzzyCompare and FuzzyMatch.  Their bodies are in      *)
(* cartotype_string.cpp; they are modelled from the design: a banded       *)
(* dynamic programme over the two code-point sequences, the distance       *)
(* capped at KMaxFuzzyDistance and anything beyond the cap reported as     *)
(* "exceeds" (cap + 1).                                                     *)
(***************************************************************************)

\* Longest generated text given to the fuzzy match.
FzMaxLen == 5

FzCodes == {1, 2}

FzStrings == SeqsUpTo(FzCodes, FzMaxLen)

\* The values of aMaxDistance a caller passes.
FzCaps == 0..4

\* "Picadilly" and "Piccadilly" as code points.
Picadilly == <<80, 105, 99, 97, 100, 105, 108, 108, 121>>

Piccadilly == <<80, 105, 99, 99, 97, 100, 105, 108, 108, 121>>

\* A cap one too small.
FuzzyDistanceCapOfThree == 4 - 1

\* static constexpr int KMaxFuzzyDistance = 4
KMaxFuzzyDistance == 4

\* The largest distance the functions look for: aMaxDistance, at most the cap.
FuzzyCap(aMaxDistance) == Min(Max(aMaxDistance, 0), KMaxFuzzyDistance)

\* One row of the banded table, built from the left.  prev is the row above
\* and acc the cells of this row so far (cell j is at index j + 1); cells
\* outside the band |i - j| <= k, and cells above k, hold k + 1.
RECURSIVE FuzzyRow(_, _, _, _, _, _)
FuzzyRow(prev, acc, i, a, b, k) ==
    LET j == Len(acc)
        inBand == (j - i <= k) /\ (i - j <= k)
        del == prev[j + 1] + 1
        ins == IF j = 0 THEN k + 1 ELSE acc[j] + 1
        sub == IF j = 0 THEN k + 1
               ELSE prev[j] + (IF a[i] = b[j] THEN 0 ELSE 1)
        cell == IF inBand THEN Min(k + 1, Min(del, Min(ins, sub))) ELSE k + 1
    IN  IF j > Len(b) THEN acc
        ELSE FuzzyRow(prev, Append(acc, cell), i, a, b, k)

\* The rows in turn.  Once every cell of a row exceeds the cap, so does every
\* cell below it, and the result is "exceeds" without the remaining rows.
RECURSIVE FuzzyRows(_, _, _, _, _)
FuzzyRows(prev, i, a, b, k) ==
    IF i > Len(a) THEN prev[Len(b) + 1]
    ELSE IF \A j \in 1..(Len(b) + 1) : prev[j] > k THEN k + 1
    ELSE FuzzyRows(FuzzyRow(prev, <<>>, i, a, b, k), i + 1, a, b, k)

\* The edit distance of the two sequences if it is at most the cap, and
\* cap + 1 ("exceeds") otherwise.
FuzzyCompare(aIter1, aIter2, aMaxDistance) ==
    LET k == FuzzyCap(aMaxDistance)
        row0 == [j \in 1..(Len(aIter2) + 1) |-> Min(j - 1, k + 1)]
    IN  FuzzyRows(row0, 1, aIter1, aIter2, k)

FuzzyMatch(aIter1, aIter2, aMaxDistance) ==
    FuzzyCompare(aIter1, aIter2, aMaxDistance) <= FuzzyCap(aMaxDistance)

FzIdle ==
    /\ fzText1 = <<>>
    /\ fzText2 = <<>>
    /\ fzMax = 0
    /\ fzMatch = FALSE
    /\ fzDistance = 0
    /\ fzDone = FALSE

FzInit ==
    /\ \E pair \in (FzStrings \X FzStrings) \cup {<<Picadilly, Piccadilly>>} :
           /\ fzText1 = pair[1]
           /\ fzText2 = pair[2]
    /\ fzMax \in FzCaps
    /\ fzMatch = FALSE
    /\ fzDistance = 0
    /\ fzDone = FALSE

\* A caller runs FuzzyMatch and FuzzyCompare on the two texts.
FuzzyMatchTexts ==
    /\ ~fzDone
    /\ fzMatch' = FuzzyMatch(fzText1, fzText2, fzMax)
    /\ fzDistance' = FuzzyCompare(fzText1, fzText2, fzMax)
    /\ fzDone' = TRUE
    /\ UNCHANGED <<fzText1, fzText2, fzMax>>

(***************************************************************************)
(* Part 3: the attribute sub-format: MString::SetAttribute, Attribute,     *)
(* NextAttribute and FindStringAttrib.  Their bodies are in                *)
(* cartotype_string.cpp; they are modelled from the design.  The scheme    *)
(* chosen here is length-prefixed, which is collision-free whatever units  *)
(* the keys and values hold: a pair is stored as                           *)
(*     <key length> key units <value length> value units                   *)
(* and the text is the pairs one after the other.  Offsets are 0-based as  *)
(* in the code; the unit at offset p of text t is t[p + 1].                *)
(***************************************************************************)

\* Most SetAttribute calls made on one string.
MaxSets == 3

\* "name", "Elm Street" and "Oak Street" as UTF-16 units.
NameKey == <<110, 97, 109, 101>>

ElmStreet == <<69, 108, 109, 32, 83, 116, 114, 101, 101, 116>>

OakStreet == <<79, 97, 107, 32, 83, 116, 114, 101, 101, 116>>

\* Keys: one a prefix of another, their units the same numbers as the lengths
\* stored in the text.
AtKeys == {<<1>>, <<1, 2>>, NameKey}

\* Values: empty (which removes), one that reads like a stored pair, and two
\* of equal length.
AtValues == {<<>>, <<1, 1, 1, 2>>, ElmStreet, OakStreet}

\* The pair lists a string may hold to begin with.
AtInitialPairs ==
    { <<>>,
      << <<NameKey, ElmStreet>> >>,
      << <<(<<1, 2>>), OakStreet>>, <<(<<1>>), (<<1, 1, 1, 2>>)>> >> }

\* The stored form of one pair, and of a list of pairs.
EncodePair(key, value) == <<Len(key)>> \o key \o <<Len(value)>> \o value

RECURSIVE EncodePairs(_)
EncodePairs(pairs) ==
    IF pairs = <<>> THEN <<>>
    ELSE EncodePair(Head(pairs)[1], Head(pairs)[2]) \o EncodePairs(Tail(pairs))

\* The units of t at offsets aStart .. aEnd - 1.
Units(t, aStart, aEnd) == SubSeq(t, aStart + 1, aEnd)

\* MString::Replace(aStart,aEnd,aText,aLength) on a growable string: the text
\* aStart...aEnd is replaced by aText.
Replace(t, aStart, aEnd, aText) ==
    SubSeq(t, 1, aStart) \o aText \o SubSeq(t, aEnd + 1, Len(t))

\* A Delete that leaves the last unit of the range in place.
DeleteOneShort(t, aStart, aEnd) == Replace(t, aStart, aEnd - 1, <<>>)

\* MString::Delete: Replace with no text.
Delete(t, aStart, aEnd) == Replace(t, aStart, aEnd, <<>>)

\* The unit at offset p, and 0 beyond the end of the text.
UnitAt(t, p) == IF p < Len(t) THEN t[p + 1] ELSE 0

\* The pair stored at offset pos: where its key and its value start and end.
\* No offset is taken beyond the end of the text.
PairAt(t, pos) ==
    LET keyStart == Min(pos + 1, Len(t))
        keyEnd == Min(keyStart + UnitAt(t, pos), Len(t))
        valueStart == Min(keyEnd + 1, Len(t))
        valueEnd == Min(valueStart + UnitAt(t, keyEnd), Len(t))
    IN  [keyStart |-> keyStart, keyEnd |-> keyEnd,
         valueStart |-> valueStart, valueEnd |-> valueEnd, found |-> TRUE]

\* What FindStringAttrib reports for a key the text does not hold.
NotFound(t) == [keyStart |-> Len(t), keyEnd |-> Len(t),
                valueStart |-> Len(t), valueEnd |-> Len(t), found |-> FALSE]

\* The scan that stops at the first pair whose key begins with aKey.
RECURSIVE FindPrefixFrom(_, _, _)
FindPrefixFrom(t, aKey, pos) ==
    IF pos >= Len(t) THEN NotFound(t)
    ELSE LET at == PairAt(t, pos)
         IN  IF /\ at.keyEnd - at.keyStart >= Len(aKey)
                /\ Units(t, at.keyStart, at.keyStart + Len(aKey)) = aKey
             THEN at
             ELSE FindPrefixFrom(t, aKey, at.valueEnd)

\* The linear scan of FindStringAttrib from offset pos.
RECURSIVE FindFrom(_, _, _)
FindFrom(t, aKey, pos) ==
    IF pos >= Len(t) THEN NotFound(t)
    ELSE LET at == PairAt(t, pos)
         IN  IF Units(t, at.keyStart, at.keyEnd) = aKey
             THEN at
             ELSE FindFrom(t, aKey, at.valueEnd)

\* MString::FindStringAttrib(aKey,aKeyStart,aValueStart,aValueEnd).
FindStringAttrib(t, aKey) == FindFrom(t, aKey, 0)

\* MString::SetAttribute(aKey,aValue): the value of an existing key is
\* replaced in place, or the pair removed if the value is empty; a new pair
\* is appended.
SetAttribute(t, aKey, aValue) ==
    LET f == FindStringAttrib(t, aKey)
    IN  IF f.found
        THEN IF aValue = <<>>
             THEN Delete(t, f.keyStart - 1, f.valueEnd)
             ELSE Replace(t, f.valueStart - 1, f.valueEnd,
                          <<Len(aValue)>> \o aValue)
        ELSE IF aValue = <<>> THEN t
        ELSE t \o EncodePair(aKey, aValue)

\* MString::Attribute(aKey): a view of the value, empty if the key is absent.
Attribute(t, aKey) ==
    LET f == FindStringAttrib(t, aKey)
    IN  IF f.found THEN Units(t, f.valueStart, f.valueEnd) ELSE <<>>

\* MString::NextAttribute(aPos,aKey,aValue): the pair at the cursor, and the
\* cursor moved past it; ok is FALSE at the end of the text.
NextAttribute(t, aPos) ==
    IF aPos >= Len(t)
    THEN [ok |-> FALSE, pos |-> aPos, key |-> <<>>, value |-> <<>>]
    ELSE LET at == PairAt(t, aPos)
         IN  [ok |-> TRUE, pos |-> at.valueEnd,
              key |-> Units(t, at.keyStart, at.keyEnd),
              value |-> Units(t, at.valueStart, at.valueEnd)]

\* What the string is expected to hold, per key (<<>>: nothing).
NoPairs == [k \in AtKeys |-> <<>>]

RECURSIVE PairsAsMap(_)
PairsAsMap(pairs) ==
    IF pairs = <<>> THEN NoPairs
    ELSE [PairsAsMap(Tail(pairs)) EXCEPT ![Head(pairs)[1]] = Head(pairs)[2]]

AtIdle ==
    /\ atText = <<>>
    /\ atExpect = NoPairs
    /\ atSetKeys = {}
    /\ atRepeat = FALSE
    /\ atCalls = 0
    /\ atPos = 0
    /\ atYield = <<>>
    /\ atEnd = FALSE

AtInit ==
    /\ \E pairs \in AtInitialPairs :
           /\ atText = EncodePairs(pairs)
           /\ atExpect = PairsAsMap(pairs)
    /\ atSetKeys = {}
    /\ atRepeat = FALSE
    /\ atCalls = 0
    /\ atPos = 0
    /\ atYield = <<>>
    /\ atEnd = FALSE

\* True while no enumeration has begun.
AtSetting == atPos = 0 /\ atYield = <<>> /\ ~atEnd

\* A caller sets one attribute.
CallSetAttribute ==
    /\ AtSetting
    /\ atCalls < MaxSets
    /\ \E aKey \in AtKeys, aValue \in AtValues :
           /\ atText' = SetAttribute(atText, aKey, aValue)
           /\ atExpect' = [atExpect EXCEPT ![aKey] = aValue]
           /\ atRepeat' = (atRepeat \/ aKey \in atSetKeys)
           /\ atSetKeys' = atSetKeys \cup {aKey}
    /\ atCalls' = atCalls + 1
    /\ UNCHANGED <<atPos, atYield, atEnd>>

\* A caller's enumeration loop, one NextAttribute call at a time, from the
\* start cursor 0.
CallNextAttribute ==
    /\ ~atEnd
    /\ LET r == NextAttribute(atText, atPos)
       IN  /\ atPos' = r.pos
           /\ atEnd' = ~r.ok
           /\ atYield' = IF r.ok THEN Append(atYield, <<r.key, r.value>>)
                         ELSE atYield
    /\ UNCHANGED <<atText, atExpect, atSetKeys, atRepeat, atCalls>>

(***************************************************************************)
(* Part 4: AbbreviationDictionary and MString::Abbreviate.  The classes    *)
(* and their fields are in cartotype_string.h; the bodies of Add and       *)
(* Abbreviate are in cartotype_string.cpp and are modelled from the        *)
(* design: a word is a maximal run of units that are not spaces; the       *)
(* lower-cased word is looked up as a whole word, its type checked         *)
(* against the word's place in the phrase, and failing that the suffix     *)
(* rules are tried in the order they were added.                           *)
(***************************************************************************)

\* Most rules added to one dictionary.
MaxRules == 2

\* Longest generated text given to Abbreviate.
MaxTextLen == 3

\* ' ', '.', 'A', 'a', 'b' as UTF-16 units.
SpaceUnit == 32

AbTextUnits == {32, 97, 98}

\* "Hauptstrasse", "strasse", "str." and "Hauptstr."
Hauptstrasse == <<72, 97, 117, 112, 116, 115, 116, 114, 97, 115, 115, 101>>

Strasse == <<115, 116, 114, 97, 115, 115, 101>>

StrDot == <<115, 116, 114, 46>>

HauptstrDot == <<72, 97, 117, 112, 116, 115, 116, 114, 46>>

\* The texts abbreviated: every short text of a, b and space, a word with a
\* capital, and "Hauptstrasse".
AbTexts == SeqsUpTo(AbTextUnits, MaxTextLen) \cup {<<65, 98>>, Hauptstrasse}

\* The rules a dictionary is built from: <<long form, short form, type>>.
AbRules ==
    { <<(<<97, 97>>), (<<97>>), "Suffix">>,
      <<(<<98, 98>>), (<<98, 46>>), "Suffix">>,
      <<Strasse, StrDot, "Suffix">>,
      <<(<<65, 98>>), (<<66>>), "Any">>,
      <<(<<97>>), (<<>>), "Any">>,
      <<(<<98>>), (<<98, 46>>), "Start">>,
      <<(<<97, 98>>), (<<97, 46>>), "End">>,
      <<(<<98, 97>>), (<<98, 32, 97>>), "Any">>,
      <<(<<98>>), (<<97>>), "Suffix">> }

\* Lower case of a unit (the letters used here are ASCII).
LowerUnit(c) == IF c \in 65..90 THEN c + 32 ELSE c

LowerText(w) == [i \in 1..Len(w) |-> LowerUnit(w[i])]

EndsWith(w, s) ==
    Len(s) <= Len(w) /\ SubSeq(w, Len(w) - Len(s) + 1, Len(w)) = s

\* An Abbreviation whose ReplaceCount is left at its default, 0.
NewAbbreviationDefaultCount(aShortForm, aType, aReplaceCount) ==
    [ShortForm |-> aShortForm, Type |-> aType, ReplaceCount |-> 0]

\* class Abbreviation: ShortForm, Type (Any by default) and ReplaceCount
\* (0 by default: all characters are replaced).
NewAbbreviation(aShortForm, aType, aReplaceCount) ==
    [ShortForm |-> aShortForm, Type |-> aType, ReplaceCount |-> aReplaceCount]

\* An AbbreviationDictionary as constructed: no words, no suffixes.
EmptyDictionary == [m_abbreviations |-> <<>>, m_suffixes |-> <<>>]

\* AbbreviationDictionary::Add: a suffix rule is appended, replacing as many
\* characters as the suffix has; a word is inserted, or overwritten, under
\* its lower-case form, replacing the whole word.
Add(dict, aLongForm, aShortForm, aType) ==
    IF aType = "Suffix"
    THEN [dict EXCEPT !.m_suffixes =
              Append(@, <<LowerText(aLongForm),
                          NewAbbreviation(aShortForm, aType, Len(aLongForm))>>)]
    ELSE [dict EXCEPT !.m_abbreviations =
              [k \in (DOMAIN @) \cup {LowerText(aLongForm)} |->
                  IF k = LowerText(aLongForm)
                  THEN NewAbbreviation(aShortForm, aType, 0)
                  ELSE @[k]]]

\* A type that is allowed at every place in the phrase.
TypePermitsAnywhere(aType, isFirst, isLast) == TRUE

\* AbbreviationType against the word's place in the phrase.
TypePermits(aType, isFirst, isLast) ==
    \/ aType = "Any"
    \/ aType = "Start" /\ isFirst
    \/ aType = "End" /\ isLast

\* The suffix rules that match the lower-cased word, by position in the list.
MatchingSuffixes(dict, key) ==
    {i \in 1..Len(dict.m_suffixes) : EndsWith(key, dict.m_suffixes[i][1])}

\* The abbreviation found for a word: the whole-word entry if its type allows
\* the position, else the first suffix rule that matches; hit is FALSE if
\* there is none.
FindAbbreviation(dict, aWord, isFirst, isLast) ==
    LET key == LowerText(aWord)
        suffixes == MatchingSuffixes(dict, key)
    IN  IF /\ key \in DOMAIN dict.m_abbreviations
           /\ TypePermits(dict.m_abbreviations[key].Type, isFirst, isLast)
        THEN [hit |-> TRUE, abbreviation |-> dict.m_abbreviations[key]]
        ELSE IF suffixes # {}
        THEN [hit |-> TRUE,
              abbreviation |->
                  dict.m_suffixes[CHOOSE i \in suffixes :
                                      \A j \in suffixes : i <= j][2]]
        ELSE [hit |-> FALSE, abbreviation |-> NewAbbreviation(<<>>, "Any", 0)]

\* The short form added to the word with nothing taken away.
SpliceKeepingAll(aWord, abbreviation) == aWord \o abbreviation.ShortForm

\* The word with its trailing ReplaceCount characters (all of them if 0)
\* replaced by the short form.
Splice(aWord, abbreviation) ==
    LET count == IF abbreviation.ReplaceCount = 0 THEN Len(aWord)
                 ELSE abbreviation.ReplaceCount
    IN  SubSeq(aWord, 1, Len(aWord) - count) \o abbreviation.ShortForm

\* The text cut into runs of spaces and runs of other units (the words).
RECURSIVE SplitTokens(_, _)
SplitTokens(t, acc) ==
    IF t = <<>> THEN acc
    ELSE IF /\ acc # <<>>
            /\ (acc[Len(acc)][1] = SpaceUnit) <=> (Head(t) = SpaceUnit)
         THEN SplitTokens(Tail(t),
                          [acc EXCEPT ![Len(acc)] = Append(@, Head(t))])
         ELSE SplitTokens(Tail(t), Append(acc, <<Head(t)>>))

RECURSIVE Concat(_)
Concat(tokens) ==
    IF tokens = <<>> THEN <<>> ELSE Head(tokens) \o Concat(Tail(tokens))

\* MString::Abbreviate(aDictionary,aDeleteWords).
Abbreviate(text, dict, aDeleteWords) ==
    LET tokens == SplitTokens(text, <<>>)
        n == Len(tokens)
        IsWord(i) == tokens[i][1] # SpaceUnit
        words == {i \in 1..n : IsWord(i)}
        IsFirst(i) == \A j \in words : i <= j
        IsLast(i) == \A j \in words : j <= i
        Found(i) == FindAbbreviation(dict, tokens[i], IsFirst(i), IsLast(i))
        \* the word is removed, with the spaces after it (before it if none follow)
        Removed(i) ==
            /\ i \in words
            /\ aDeleteWords
            /\ Found(i).hit
            /\ Found(i).abbreviation.ShortForm = <<>>
        SpacesRemoved(i) ==
            \/ i > 1 /\ Removed(i - 1)
            \/ i + 1 = n /\ Removed(i + 1)
        NewToken(i) ==
            IF IsWord(i)
            THEN IF Removed(i) THEN <<>>
                 ELSE IF Found(i).hit
                      THEN Splice(tokens[i], Found(i).abbreviation)
                      ELSE tokens[i]
            ELSE IF SpacesRemoved(i) THEN <<>> ELSE tokens[i]
    IN  Concat([i \in 1..n |-> NewToken(i)])

AbIdle ==
    /\ abOriginal = <<>>
    /\ abText = <<>>
    /\ abBefore = <<>>
    /\ abDict = EmptyDictionary
    /\ abDelete = FALSE
    /\ abPhase = "build"

AbInit ==
    /\ abOriginal \in AbTexts
    /\ abText = abOriginal
    /\ abBefore = abOriginal
    /\ abDict = EmptyDictionary
    /\ abDelete \in BOOLEAN
    /\ abPhase = "build"

\* The number of rules the dictionary holds.
RuleCount(dict) ==
    Cardinality(DOMAIN dict.m_abbreviations) + Len(dict.m_suffixes)

\* Load time: a rule is added to the dictionary.
AddAbbreviation ==
    /\ abPhase = "build"
    /\ RuleCount(abDict) < MaxRules
    /\ \E rule \in AbRules : abDict' = Add(abDict, rule[1], rule[2], rule[3])
    /\ UNCHANGED <<abOriginal, abText, abBefore, abDelete, abPhase>>

\* The text is abbreviated: a first time, and then once more.
AbbreviateText ==
    /\ abPhase \in {"build", "once"}
    /\ abPhase' = IF abPhase = "build" THEN "once" ELSE "twice"
    /\ abBefore' = abText
    /\ abText' = Abbreviate(abText, abDict, abDelete)
    /\ UNCHANGED <<abOriginal, abDict, abDelete>>

(***************************************************************************)
(* Part 5: FoldingIterator over a Utf32Iter.  FoldingIterator::Next and    *)
(* Back are inline in the header; Char::AccentStripped, Char::GetLowerCase *)
(* and StringMatchMethod::Ignore are declared only, and are modelled from  *)
(* their documentation with the Unicode data of a small alphabet.          *)
(***************************************************************************)

\* The longest text given to the first iterator.
MaxFoldLen == 2

\* The alphabet: space, hyphen-minus, S, E-acute (U+00C9) and I with dot
\* above (U+0130), whose full lower-case form is i followed by the combining
\* dot above (U+0307).
FoldInputCodes == {32, 45, 83, 201, 304}

FoldTexts == SeqsUpTo(FoldInputCodes, MaxFoldLen)

\* enum class StringMatchMethodFlag
FlagPrefix == 1
FlagIgnoreSymbols == 2
FlagFoldAccents == 4
FlagFuzzy == 8
FlagFoldCase == 16
FlagIgnoreWhitespace == 32

\* The methods that differ in how they fold: every combination of
\* IgnoreSymbols, FoldAccents, FoldCase and IgnoreWhitespace.
FoldMethods ==
    {s + a + c + w : s \in {0, FlagIgnoreSymbols}, a \in {0, FlagFoldAccents},
                     c \in {0, FlagFoldCase}, w \in {0, FlagIgnoreWhitespace}}

\* StringMatchMethod::operator&: true if aFlag is set.
HasFlag(aFlags, aFlag) == BitAnd(aFlags, aFlag) # 0

\* Char::KMaxCaseVariantLength
KMaxCaseVariantLength == 2

IsWhitespace(aCode) == aCode = 32

\* Letters of the alphabet and of what it folds to: E I S e i s, E-acute,
\* e-acute, I with dot above.  Hyphen-minus is punctuation and U+0307 a
\* combining mark.
IsLetterOrDigit(aCode) ==
    aCode \in (65..90) \cup (97..122) \cup {201, 223, 233, 304}

\* StringMatchMethod::Ignore: with IgnoreSymbols every character that is not
\* a letter, a digit or whitespace; with IgnoreWhitespace, whitespace.
Ignore(aFlags, aCharCode) ==
    \/ /\ HasFlag(aFlags, FlagIgnoreSymbols)
       /\ ~IsLetterOrDigit(aCharCode)
       /\ ~IsWhitespace(aCharCode)
    \/ /\ HasFlag(aFlags, FlagIgnoreWhitespace)
       /\ IsWhitespace(aCharCode)

\* Char::AccentStripped: the base character of an accented letter.
AccentStripped(aCode) ==
    CASE aCode = 201 -> 69
      [] aCode = 233 -> 101
      [] aCode = 304 -> 73
      [] OTHER -> aCode

\* Char::GetLowerCase: the full lower-case form, one or two code points.
GetLowerCase(aCode) ==
    CASE aCode \in 65..90 -> <<aCode + 32>>
      [] aCode = 201 -> <<233>>
      [] aCode = 223 -> <<115, 115>>
      [] aCode = 304 -> <<105, 775>>
      [] OTHER -> <<aCode>>

\* FoldingIterator's constructor: iFoldAccents and iFoldCase.
iFoldAccents == HasFlag(fdMethod, FlagFoldAccents)

iFoldCase == HasFlag(fdMethod, FlagFoldCase)

\* A loop that keeps the first code point it reads, ignored or not.
PullKeptFirstRead(text, pos, aFlags) ==
    IF pos >= Len(text) THEN 0 ELSE pos + 1

\* The for (;;) loop of Next: the inner iterator is advanced past ignored
\* code points.  The result is the index of the code point kept, or 0 when
\* the inner iterator ran out.
RECURSIVE PullKept(_, _, _)
PullKept(text, pos, aFlags) ==
    IF pos >= Len(text) THEN 0
    ELSE IF ~Ignore(aFlags, text[pos + 1]) THEN pos + 1
    ELSE PullKept(text, pos + 1, aFlags)

\* A new FoldingIterator over a new Utf32Iter at the start of its text.
NewIterator ==
    /\ fdPos = 0
    /\ iCaseVariant = [i \in 1..KMaxCaseVariantLength |-> 0]
    /\ iCaseVariantLength = 0
    /\ iCaseVariantIndex = 0
    /\ fdCode = 0
    /\ fdResult = "none"
    /\ fdOut = <<>>

FdIdle ==
    /\ fdText = <<>>
    /\ fdMethod = 0
    /\ fdFirst = <<>>
    /\ fdPass = 0
    /\ NewIterator

FdInit ==
    /\ fdText \in FoldTexts
    /\ fdMethod \in FoldMethods
    /\ fdFirst = <<>>
    /\ fdPass = 1
    /\ NewIterator

\* A Next that gives the first code point of a lower-case form and drops the
\* rest.
FoldingNextFirstCodeOnly ==
    /\ fdPass \in {1, 2}
    /\ IF iCaseVariantIndex < iCaseVariantLength
       THEN /\ fdCode' = iCaseVariant[iCaseVariantIndex + 1]
            /\ iCaseVariantIndex' = iCaseVariantIndex + 1
            /\ fdResult' = "KErrorNone"
            /\ fdOut' = Append(fdOut, fdCode')
            /\ UNCHANGED <<fdPos, iCaseVariant, iCaseVariantLength>>
       ELSE LET kept == PullKept(fdText, fdPos, fdMethod)
                code == fdText[kept]
                c == IF iFoldAccents THEN AccentStripped(code) ELSE code
                lower == GetLowerCase(c)
            IN  IF kept = 0
                THEN /\ fdPos' = Len(fdText)
                     /\ fdCode' = -1
                     /\ fdResult' = "KErrorEndOfData"
                     /\ UNCHANGED <<iCaseVariant, iCaseVariantLength,
                                    iCaseVariantIndex, fdOut>>
                ELSE /\ fdPos' = kept
                     /\ fdResult' = "KErrorNone"
                     /\ IF iFoldCase
                        THEN /\ iCaseVariant' =
                                   [i \in 1..KMaxCaseVariantLength |->
                                       IF i <= Len(lower) THEN lower[i]
                                       ELSE iCaseVariant[i]]
                             /\ iCaseVariantLength' = 1
                             /\ iCaseVariantIndex' = 1
                             /\ fdCode' = lower[1]
                        ELSE /\ fdCode' = c
                             /\ UNCHANGED <<iCaseVariant, iCaseVariantLength,
                                            iCaseVariantIndex>>
                     /\ fdOut' = Append(fdOut, fdCode')
    /\ UNCHANGED <<fdText, fdMethod, fdFirst, fdPass>>

\* FoldingIterator::Next
FoldingNext ==
    /\ fdPass \in {1, 2}
    /\ IF iCaseVariantIndex < iCaseVariantLength
       THEN /\ fdCode' = iCaseVariant[iCaseVariantIndex + 1]
            /\ iCaseVariantIndex' = iCaseVariantIndex + 1
            /\ fdResult' = "KErrorNone"
            /\ fdOut' = Append(fdOut, fdCode')
            /\ UNCHANGED <<fdPos, iCaseVariant, iCaseVariantLength>>
       ELSE LET kept == PullKept(fdText, fdPos, fdMethod)
                code == fdText[kept]
                c == IF iFoldAccents THEN AccentStripped(code) ELSE code
                lower == GetLowerCase(c)
            IN  IF kept = 0
                THEN /\ fdPos' = Len(fdText)
                     /\ fdCode' = -1
                     /\ fdResult' = "KErrorEndOfData"
                     /\ UNCHANGED <<iCaseVariant, iCaseVariantLength,
                                    iCaseVariantIndex, fdOut>>
                ELSE /\ fdPos' = kept
                     /\ fdResult' = "KErrorNone"
                     /\ IF iFoldCase
                        THEN /\ iCaseVariant' =
                                   [i \in 1..KMaxCaseVariantLength |->
                                       IF i <= Len(lower) THEN lower[i]
                                       ELSE iCaseVariant[i]]
                             /\ iCaseVariantLength' = Len(lower)
                             /\ iCaseVariantIndex' = 1
                             /\ fdCode' = lower[1]
                        ELSE /\ fdCode' = c
                             /\ UNCHANGED <<iCaseVariant, iCaseVariantLength,
                                            iCaseVariantIndex>>
                     /\ fdOut' = Append(fdOut, fdCode')
    /\ UNCHANGED <<fdText, fdMethod, fdFirst, fdPass>>

\* A Back that drops what is left of the buffered expansion before it throws.
FoldingBackDroppingExpansion ==
    /\ fdPass \in {1, 2}
    /\ fdResult' = "KErrorUnimplemented"
    /\ iCaseVariantLength' = 0
    /\ iCaseVariantIndex' = 0
    /\ UNCHANGED <<fdText, fdMethod, fdPos, iCaseVariant, fdCode, fdOut,
                   fdFirst, fdPass>>

\* FoldingIterator::Back: throws KErrorUnimplemented.
FoldingBack ==
    /\ fdPass \in {1, 2}
    /\ fdResult' = "KErrorUnimplemented"
    /\ UNCHANGED <<fdText, fdMethod, fdPos, iCaseVariant, iCaseVariantLength,
                   iCaseVariantIndex, fdCode, fdOut, fdFirst, fdPass>>

\* The caller, having read the first iterator to its end, runs what it read
\* through a second FoldingIterator with the same method.
FoldAgain ==
    /\ fdPass = 1
    /\ fdResult = "KErrorEndOfData"
    /\ fdFirst' = fdOut
    /\ fdText' = fdOut
    /\ fdPass' = 2
    /\ fdPos' = 0
    /\ iCaseVariant' = [i \in 1..KMaxCaseVariantLength |-> 0]
    /\ iCaseVariantLength' = 0
    /\ iCaseVariantIndex' = 0
    /\ fdCode' = 0
    /\ fdResult' = "none"
    /\ fdOut' = <<>>
    /\ UNCHANGED fdMethod

(***************************************************************************)
(* Part 6: conversion to and from UTF-8 and UTF-16.  CreateUtf8String,     *)
(* CreateUtf16String, the String constructors and the iterators            *)
(* Utf8ToUtf32 and Utf16ToUtf32 are declared only; they are modelled from  *)
(* the definitions of the encodings.  The measuring of null-terminated     *)
(* text is taken from MString::Set(const uint16_t*,size_t).                *)
(***************************************************************************)

\* The longest text converted, in scalar values.
MaxScalars == 2

\* Scalar values at the edges of the encodings' ranges: U+0000, U+0041,
\* U+007F, U+0080, U+07FF, U+0800, U+D7FF, U+E000, U+FFFF, U+10000, U+10FFFF.
Scalars == {0, 65, 127, 128, 2047, 2048, 55295, 57344, 65535, 65536, 1114111}

ScalarTexts == SeqsUpTo(Scalars, MaxScalars)

\* static const size_t npos = size_t(-1): the text is null-terminated.
npos == -1

\* U+FFFD, given for malformed input.
ReplacementCode == 65533

\* The concatenation of the sequences f[1] .. f[n].
RECURSIVE Flatten(_, _)
Flatten(f, n) == IF n = 0 THEN <<>> ELSE Flatten(f, n - 1) \o f[n]

\* A scalar value as one UTF-16 unit or a surrogate pair.
Utf16Units(aCode) ==
    IF aCode < 65536 THEN <<aCode>>
    ELSE <<55296 + ((aCode - 65536) \div 1024),
           56320 + ((aCode - 65536) % 1024)>>

\* A scalar value as one to four UTF-8 bytes.
Utf8Bytes(aCode) ==
    IF aCode < 128 THEN <<aCode>>
    ELSE IF aCode < 2048 THEN <<192 + (aCode \div 64), 128 + (aCode % 64)>>
    ELSE IF aCode < 65536
         THEN <<224 + (aCode \div 4096), 128 + ((aCode \div 64) % 64),
                128 + (aCode % 64)>>
    ELSE <<240 + (aCode \div 262144), 128 + ((aCode \div 4096) % 64),
           128 + ((aCode \div 64) % 64), 128 + (aCode % 64)>>

\* The UTF-16 text of a sequence of scalar values.
Utf32ToUtf16(codes) ==
    Flatten([i \in 1..Len(codes) |-> Utf16Units(codes[i])], Len(codes))

\* The UTF-8 text of a sequence of scalar values.
Utf32ToUtf8(codes) ==
    Flatten([i \in 1..Len(codes) |-> Utf8Bytes(codes[i])], Len(codes))

\* Utf16ToUtf32: Next until the end of data, from unit i on.  A high
\* surrogate followed by a low one gives one code; any other unit gives itself.
RECURSIVE Utf16ToUtf32From(_, _)
Utf16ToUtf32From(aText, i) ==
    IF i > Len(aText) THEN <<>>
    ELSE IF /\ aText[i] \in 55296..56319
            /\ i < Len(aText)
            /\ aText[i + 1] \in 56320..57343
         THEN <<65536 + (aText[i] - 55296) * 1024 + (aText[i + 1] - 56320)>>
              \o Utf16ToUtf32From(aText, i + 2)
    ELSE <<aText[i]>> \o Utf16ToUtf32From(aText, i + 1)

Utf16ToUtf32(aText) == Utf16ToUtf32From(aText, 1)

\* True if the n bytes after byte i are all continuation bytes.
Continues(aText, i, n) ==
    /\ i + n <= Len(aText)
    /\ \A k \in 1..n : aText[i + k] \in 128..191

\* Utf8ToUtf32: Next until the end of data, from byte i on.  A lead byte
\* with its continuation bytes gives one code; anything else gives U+FFFD
\* for one byte.
RECURSIVE Utf8ToUtf32From(_, _)
Utf8ToUtf32From(aText, i) ==
    IF i > Len(aText) THEN <<>>
    ELSE LET b == aText[i]
             tail(k) == aText[i + k] - 128
         IN  IF b < 128 THEN <<b>> \o Utf8ToUtf32From(aText, i + 1)
             ELSE IF b \in 192..223 /\ Continues(aText, i, 1)
                  THEN <<(b - 192) * 64 + tail(1)>>
                       \o Utf8ToUtf32From(aText, i + 2)
             ELSE IF b \in 224..239 /\ Continues(aText, i, 2)
                  THEN <<(b - 224) * 4096 + tail(1) * 64 + tail(2)>>
                       \o Utf8ToUtf32From(aText, i + 3)
             ELSE IF b \in 240..247 /\ Continues(aText, i, 3)
                  THEN <<(b - 240) * 262144 + tail(1) * 4096 + tail(2) * 64
                         + tail(3)>>
                       \o Utf8ToUtf32From(aText, i + 4)
             ELSE <<ReplacementCode>> \o Utf8ToUtf32From(aText, i + 1)

Utf8ToUtf32(aText) == Utf8ToUtf32From(aText, 1)

\* MString::CreateUtf8String: the string's text as UTF-8.
CreateUtf8String(text) == Utf32ToUtf8(Utf16ToUtf32(text))

\* MString::CreateUtf16String: the string's text as UTF-16.
CreateUtf16String(text) == text

\* A measuring loop that counts the terminator too.
RECURSIVE TerminatedLengthWithNull(_, _)
TerminatedLengthWithNull(aText, aLength) ==
    IF aText[aLength + 1] # 0
    THEN TerminatedLengthWithNull(aText, aLength + 1)
    ELSE aLength + 1

\* while (*p++) aLength++: the number of units before the first zero of a
\* buffer that holds one.
RECURSIVE TerminatedLength(_, _)
TerminatedLength(aText, aLength) ==
    IF aText[aLength + 1] # 0
    THEN TerminatedLength(aText, aLength + 1)
    ELSE aLength

\* The text a constructor reads from a buffer: aLength units or bytes, or
\* those before the first zero if aLength is npos.
TextRead(aBuffer, aLength) ==
    SubSeq(aBuffer, 1, IF aLength = npos THEN TerminatedLength(aBuffer, 0)
                       ELSE aLength)

\* String::String(const char* aText,size_t aLength)
StringFromUtf8(aBuffer, aLength) ==
    Utf32ToUtf16(Utf8ToUtf32(TextRead(aBuffer, aLength)))

\* String::String(const uint16_t* aText,size_t aLength)
StringFromUtf16(aBuffer, aLength) == TextRead(aBuffer, aLength)

UcIdle ==
    /\ ucScalars = <<>>
    /\ ucText = <<>>
    /\ ucUtf8 = <<>>
    /\ ucUtf16 = <<>>
    /\ ucLength8 = 0
    /\ ucLength16 = 0
    /\ ucFrom8 = <<>>
    /\ ucFrom16 = <<>>
    /\ ucDone = {}

\* A string that holds the UTF-16 form of a text of valid scalar values.
UcInit ==
    /\ ucScalars \in ScalarTexts
    /\ ucText = Utf32ToUtf16(ucScalars)
    /\ ucUtf8 = <<>>
    /\ ucUtf16 = <<>>
    /\ ucLength8 = 0
    /\ ucLength16 = 0
    /\ ucFrom8 = <<>>
    /\ ucFrom16 = <<>>
    /\ ucDone = {}

\* std::string u(text.CreateUtf8String())
CallCreateUtf8String ==
    /\ "utf8" \notin ucDone
    /\ ucUtf8' = CreateUtf8String(ucText)
    /\ ucDone' = ucDone \cup {"utf8"}
    /\ UNCHANGED <<ucScalars, ucText, ucUtf16, ucLength8, ucLength16,
                   ucFrom8, ucFrom16>>

\* String from8(u.c_str()) or String from8(u.data(),u.length()): the
\* buffer of a std::string ends with a zero.
ConstructFromUtf8 ==
    /\ "utf8" \in ucDone
    /\ "from8" \notin ucDone
    /\ \E aLength \in {npos, Len(ucUtf8)} :
          /\ ucLength8' = aLength
          /\ ucFrom8' = StringFromUtf8(Append(ucUtf8, 0), aLength)
    /\ ucDone' = ucDone \cup {"from8"}
    /\ UNCHANGED <<ucScalars, ucText, ucUtf8, ucUtf16, ucLength16, ucFrom16>>

\* std::basic_string<uint16_t> w(text.CreateUtf16String())
CallCreateUtf16String ==
    /\ "utf16" \notin ucDone
    /\ ucUtf16' = CreateUtf16String(ucText)
    /\ ucDone' = ucDone \cup {"utf16"}
    /\ UNCHANGED <<ucScalars, ucText, ucUtf8, ucLength8, ucLength16,
                   ucFrom8, ucFrom16>>

\* String from16(w.c_str()) or String from16(w.data(),w.length())
ConstructFromUtf16 ==
    /\ "utf16" \in ucDone
    /\ "from16" \notin ucDone
    /\ \E aLength \in {npos, Len(ucUtf16)} :
          /\ ucLength16' = aLength
          /\ ucFrom16' = StringFromUtf16(Append(ucUtf16, 0), aLength)
    /\ ucDone' = ucDone \cup {"from16"}
    /\ UNCHANGED <<ucScalars, ucText, ucUtf8, ucUtf16, ucLength8, ucFrom8>>

(***************************************************************************)
(* Part 7: MString::Compare(MIter&,MIter&,StringMatchMethod) over two      *)
(* FoldingIterators.  The function is declared only; it is modelled as     *)
(* the loop of Compare(const MString&) reading a code from each iterator   *)
(* in turn, and as FuzzyCompare when the Fuzzy flag is set.                *)
(***************************************************************************)

\* The longest text on either side.
MaxCmLen == 2

\* Space, E, e and E-acute.
CmCodes == {32, 69, 101, 201}

\* "Straße" and "strasse"
StrasseEszett == <<83, 116, 114, 97, 223, 101>>

StrasseLower == <<115, 116, 114, 97, 115, 115, 101>>

CmTexts == SeqsUpTo(CmCodes, MaxCmLen)

CmPairs ==
    (CmTexts \X CmTexts)
        \cup {<<StrasseEszett, StrasseLower>>, <<StrasseLower, StrasseEszett>>}

\* Exact, FoldAccents, FoldCase, Fold, Loose, IgnoreWhitespace with FoldCase,
\* and two methods with the Fuzzy flag: Fuzzy alone and StringMatchMethod::Fuzzy.
CmMethods ==
    {0, FlagFoldAccents, FlagFoldCase, FlagFoldAccents + FlagFoldCase,
     FlagIgnoreSymbols + FlagFoldAccents + FlagFoldCase,
     FlagIgnoreWhitespace + FlagFoldCase,
     FlagFuzzy, FlagIgnoreSymbols + FlagFoldAccents + FlagFuzzy}

\* The members of a FoldingIterator and the position of the Utf32Iter under
\* it, at construction.
NewFoldingIterator ==
    [iPos |-> 0,
     iCaseVariant |-> [i \in 1..KMaxCaseVariantLength |-> 0],
     iCaseVariantLength |-> 0,
     iCaseVariantIndex |-> 0]

\* FoldingIterator::Next as a function of the iterator: the iterator after
\* the call, the code given and the result.
FoldingIteratorNext(text, it, aFlags) ==
    IF it.iCaseVariantIndex < it.iCaseVariantLength
    THEN [iter |-> [it EXCEPT !.iCaseVariantIndex = @ + 1],
          code |-> it.iCaseVariant[it.iCaseVariantIndex + 1],
          error |-> "KErrorNone"]
    ELSE LET kept == PullKept(text, it.iPos, aFlags)
             code == text[kept]
             c == IF HasFlag(aFlags, FlagFoldAccents) THEN AccentStripped(code)
                  ELSE code
             lower == GetLowerCase(c)
         IN  IF kept = 0
             THEN [iter |-> [it EXCEPT !.iPos = Len(text)],
                   code |-> -1,
                   error |-> "KErrorEndOfData"]
             ELSE IF HasFlag(aFlags, FlagFoldCase)
             THEN [iter |-> [iPos |-> kept,
                             iCaseVariant |->
                                 [i \in 1..KMaxCaseVariantLength |->
                                     IF i <= Len(lower) THEN lower[i]
                                     ELSE it.iCaseVariant[i]],
                             iCaseVariantLength |-> Len(lower),
                             iCaseVariantIndex |-> 1],
                   code |-> lower[1],
                   error |-> "KErrorNone"]
             ELSE [iter |-> [it EXCEPT !.iPos = kept],
                   code |-> c,
                   error |-> "KErrorNone"]

\* The codes a FoldingIterator gives from a state on, up to the end of data.
RECURSIVE CodesFrom(_, _, _)
CodesFrom(text, it, aFlags) ==
    LET next == FoldingIteratorNext(text, it, aFlags)
    IN  IF next.error = "KErrorEndOfData" THEN <<>>
        ELSE <<next.code>> \o CodesFrom(text, next.iter, aFlags)

\* The folded text: all the codes of a new FoldingIterator.
Folded(text, aFlags) == CodesFrom(text, NewFoldingIterator, aFlags)

\* A verdict that does not look at the second iterator when the first ends.
PairVerdictFirstOnly(next1, next2) ==
    IF next1.error = "KErrorEndOfData" THEN -1
    ELSE IF next2.error = "KErrorEndOfData" THEN 1
    ELSE IF next1.code < next2.code THEN -2
    ELSE IF next1.code > next2.code THEN 2
    ELSE 0

\* One turn of the compare loop on the codes just read: -2 or 2 at a
\* difference, -1, 0 or 1 when an iterator has ended, and otherwise 0 with
\* the loop going on.
PairVerdict(next1, next2) ==
    IF next1.error = "KErrorEndOfData"
    THEN IF next2.error = "KErrorEndOfData" THEN 0 ELSE -1
    ELSE IF next2.error = "KErrorEndOfData" THEN 1
    ELSE IF next1.code < next2.code THEN -2
    ELSE IF next1.code > next2.code THEN 2
    ELSE 0

\* True if the loop ends on the codes just read.
PairEnds(next1, next2) ==
    \/ next1.error = "KErrorEndOfData"
    \/ next2.error = "KErrorEndOfData"
    \/ next1.code # next2.code

CmIdle ==
    /\ cmText1 = <<>>
    /\ cmText2 = <<>>
    /\ cmMethod = 0
    /\ cmIter1 = NewFoldingIterator
    /\ cmIter2 = NewFoldingIterator
    /\ cmResult = 0
    /\ cmState = "idle"

\* a.Compare(b,aStringMatchMethod): an iterator over each string.
CmInit ==
    /\ \E pair \in CmPairs : cmText1 = pair[1] /\ cmText2 = pair[2]
    /\ cmMethod \in CmMethods
    /\ cmIter1 = NewFoldingIterator
    /\ cmIter2 = NewFoldingIterator
    /\ cmResult = 0
    /\ cmState = "comparing"

\* With the Fuzzy flag: the fuzzy compare of the two iterators.
CompareFuzzily ==
    /\ cmState = "comparing"
    /\ HasFlag(cmMethod, FlagFuzzy)
    /\ cmResult' = FuzzyCompare(CodesFrom(cmText1, cmIter1, cmMethod),
                                CodesFrom(cmText2, cmIter2, cmMethod),
                                KMaxFuzzyDistance)
    /\ cmIter1' = [cmIter1 EXCEPT !.iPos = Len(cmText1)]
    /\ cmIter2' = [cmIter2 EXCEPT !.iPos = Len(cmText2)]
    /\ cmState' = "fuzzy"
    /\ UNCHANGED <<cmText1, cmText2, cmMethod>>

\* Without the Fuzzy flag: one turn of the loop, a code from each iterator.
CompareNextCodes ==
    /\ cmState = "comparing"
    /\ ~HasFlag(cmMethod, FlagFuzzy)
    /\ LET next1 == FoldingIteratorNext(cmText1, cmIter1, cmMethod)
           next2 == FoldingIteratorNext(cmText2, cmIter2, cmMethod)
       IN  /\ cmIter1' = next1.iter
           /\ cmIter2' = next2.iter
           /\ cmResult' = PairVerdict(next1, next2)
           /\ cmState' = IF PairEnds(next1, next2) THEN "ordered"
                         ELSE "comparing"
    /\ UNCHANGED <<cmText1, cmText2, cmMethod>>

(***************************************************************************)
(* Part 8: MString::Find.  The function is declared only; it is modelled   *)
(* from the specification as a scan of the start offsets in ascending      *)
(* order, at each of which a FoldingIterator over the rest of the string   *)
(* is compared code by code with one over the search term.                 *)
(***************************************************************************)

\* The longest string searched; the search term is shorter by one at least.
MaxFindLen == 3

\* Space, s and sharp s (U+00DF), which folds to "ss".
FindCodes == {32, 115, 223}

\* "new york city" and "york"
NewYorkCity == <<110, 101, 119, 32, 121, 111, 114, 107, 32, 99, 105, 116, 121>>

York == <<121, 111, 114, 107>>

\* Exact, FoldCase and IgnoreWhitespace with FoldCase or without, each with
\* the Prefix flag and without.
FindMethods ==
    {p + c + w : p \in {0, FlagPrefix}, c \in {0, FlagFoldCase},
                 w \in {0, FlagIgnoreWhitespace}}

FindInputs ==
    (SeqsUpTo(FindCodes, MaxFindLen) \X SeqsUpTo(FindCodes, MaxFindLen - 1)
        \X FindMethods)
    \cup {<<NewYorkCity, York, FlagPrefix + FlagIgnoreWhitespace>>}

\* A test of the end of a match that accepts an expansion read in part.
MatchMayEndAnywhere(it, aFlags) == TRUE

\* True if a match may end with the string's iterator as it is: with the
\* Prefix flag anywhere, without it only when the expansion of the last
\* character has been read in full.
MatchMayEnd(it, aFlags) ==
    \/ HasFlag(aFlags, FlagPrefix)
    \/ it.iCaseVariantIndex >= it.iCaseVariantLength

\* The compare at one start offset: the number of units of aRest up to the
\* end of the match, or npos if the folded search term is not at its start.
RECURSIVE MatchEnd(_, _, _, _, _)
MatchEnd(aRest, it1, aString, it2, aFlags) ==
    LET next2 == FoldingIteratorNext(aString, it2, aFlags)
        next1 == FoldingIteratorNext(aRest, it1, aFlags)
    IN  IF next2.error = "KErrorEndOfData"
        THEN IF MatchMayEnd(it1, aFlags) THEN it1.iPos ELSE npos
        ELSE IF next1.error = "KErrorEndOfData" THEN npos
        ELSE IF next1.code # next2.code THEN npos
        ELSE MatchEnd(aRest, next1.iter, aString, next2.iter, aFlags)

\* The match that starts at offset aStart, as its end offset or npos.  A
\* match does not start at an ignored character.
MatchAt(aText, aStart, aString, aFlags) ==
    IF aStart < Len(aText) /\ Ignore(aFlags, aText[aStart + 1]) THEN npos
    ELSE LET end == MatchEnd(SubSeq(aText, aStart + 1, Len(aText)),
                             NewFoldingIterator, aString, NewFoldingIterator,
                             aFlags)
         IN  IF end = npos THEN npos ELSE aStart + end

\* MString::Find: the first offset with a match and the end of that match
\* (*aEndPos), or npos.
RECURSIVE FindAtOrAfter(_, _, _, _)
FindAtOrAfter(aText, aStart, aString, aFlags) ==
    IF aStart > Len(aText) THEN [pos |-> npos, endPos |-> npos]
    ELSE LET end == MatchAt(aText, aStart, aString, aFlags)
         IN  IF end # npos THEN [pos |-> aStart, endPos |-> end]
             ELSE FindAtOrAfter(aText, aStart + 1, aString, aFlags)

Find(aText, aString, aFlags) == FindAtOrAfter(aText, 0, aString, aFlags)

FnIdle ==
    /\ fnText = <<>>
    /\ fnString = <<>>
    /\ fnMethod = 0
    /\ fnPos = 0
    /\ fnEndPos = 0
    /\ fnDone = FALSE

FnInit ==
    /\ \E in \in FindInputs :
          /\ fnText = in[1]
          /\ fnString = in[2]
          /\ fnMethod = in[3]
    /\ fnPos = 0
    /\ fnEndPos = 0
    /\ fnDone = FALSE

\* pos = text.Find(string,method,&end_pos)
CallFind ==
    /\ ~fnDone
    /\ fnPos' = Find(fnText, fnString, fnMethod).pos
    /\ fnEndPos' = Find(fnText, fnString, fnMethod).endPos
    /\ fnDone' = TRUE
    /\ UNCHANGED <<fnText, fnString, fnMethod>>

(***************************************************************************)
(* Part 9: MString::WildMatch.  The function is declared only; it is       *)
(* modelled from the specification as the usual loop over the text with    *)
(* one remembered '*' to go back to.                                       *)
(***************************************************************************)

\* The longest text and the longest pattern.
MaxWildLen == 3

\* '*' and '?'
WildStar == 42

WildAny == 63

\* a and b in the text; a, b, '*' and '?' in the pattern.
WildTextCodes == {97, 98}

WildPatternCodes == {97, 98, WildStar, WildAny}

\* "Main*Street" and "Main North Street"
MainStarStreet == <<77, 97, 105, 110, 42, 83, 116, 114, 101, 101, 116>>

MainNorthStreet ==
    <<77, 97, 105, 110, 32, 78, 111, 114, 116, 104, 32, 83, 116, 114, 101,
      101, 116>>

WildInputs ==
    (SeqsUpTo(WildTextCodes, MaxWildLen) \X SeqsUpTo(WildPatternCodes, MaxWildLen))
    \cup {<<MainNorthStreet, MainStarStreet>>,
          <<MainStarStreet, MainNorthStreet>>}

\* A test in which '?' stands for itself only.
WildCodeMatchesLiterally(aWildCode, aCode) == aWildCode = aCode

\* True if a pattern character other than '*' matches a code of the text.
WildCodeMatches(aWildCode, aCode) == aWildCode = WildAny \/ aWildCode = aCode

WmIdle ==
    /\ wmText = <<>>
    /\ wmWildText = <<>>
    /\ wmTextPos = 0
    /\ wmWildPos = 0
    /\ wmStarPos = 0
    /\ wmStarTextPos = 0
    /\ wmResult = "idle"

\* text.WildMatch(aWildText): both positions at the start, no '*' seen
\* (wmStarPos = npos).
WmInit ==
    /\ \E in \in WildInputs : wmText = in[1] /\ wmWildText = in[2]
    /\ wmTextPos = 0
    /\ wmWildPos = 0
    /\ wmStarPos = npos
    /\ wmStarTextPos = 0
    /\ wmResult = "matching"

\* One turn of the loop over the text: a '*' is remembered and passed; a
\* matching character is passed in both; otherwise the remembered '*' takes
\* one more code of the text, or the match fails if there is none.
WildMatchStep ==
    /\ wmResult = "matching"
    /\ wmTextPos < Len(wmText)
    /\ IF wmWildPos < Len(wmWildText) /\ wmWildText[wmWildPos + 1] = WildStar
       THEN /\ wmStarPos' = wmWildPos
            /\ wmStarTextPos' = wmTextPos
            /\ wmWildPos' = wmWildPos + 1
            /\ UNCHANGED <<wmTextPos, wmResult>>
       ELSE IF /\ wmWildPos < Len(wmWildText)
               /\ WildCodeMatches(wmWildText[wmWildPos + 1],
                                  wmText[wmTextPos + 1])
       THEN /\ wmTextPos' = wmTextPos + 1
            /\ wmWildPos' = wmWildPos + 1
            /\ UNCHANGED <<wmStarPos, wmStarTextPos, wmResult>>
       ELSE IF wmStarPos # npos
       THEN /\ wmWildPos' = wmStarPos + 1
            /\ wmStarTextPos' = wmStarTextPos + 1
            /\ wmTextPos' = wmStarTextPos + 1
            /\ UNCHANGED <<wmStarPos, wmResult>>
       ELSE /\ wmResult' = "false"
            /\ UNCHANGED <<wmTextPos, wmWildPos, wmStarPos, wmStarTextPos>>
    /\ UNCHANGED <<wmText, wmWildText>>

\* At the end of the text: what is left of the pattern must be '*' only.
WildMatchEnd ==
    /\ wmResult = "matching"
    /\ wmTextPos = Len(wmText)
    /\ wmResult' =
          IF \A k \in (wmWildPos + 1)..Len(wmWildText) :
                 wmWildText[k] = WildStar
          THEN "true" ELSE "false"
    /\ wmWildPos' = Len(wmWildText)
    /\ UNCHANGED <<wmText, wmWildText, wmTextPos, wmStarPos, wmStarTextPos>>

(***************************************************************************)
(* Part 10: the four kinds of string and MString::Clear, Append and Set.   *)
(* Text, WritableTextView, TextBuffer and the functions of MString are     *)
(* inline in the header; String::ResizeBuffer is declared only and is      *)
(* modelled from the specification.  A string's memory is the sequence of  *)
(* cells it points to, followed by cells that belong to something else.    *)
(***************************************************************************)

\* The largest capacity of a WritableTextView or TextBuffer, and the
\* longest Text.
MaxCapacity == 2

\* How far beyond the inline buffer a String is taken.
MaxHeapExtra == 2

\* static constexpr size_t KOwnTextLength = 32
KOwnTextLength == 32

\* The cells that follow a string's memory, and what they hold.
GuardCells == <<65535, 65535>>

\* What memory that has not been written holds: a unit that is in no text.
GarbageUnits == {3}

StUnits == {1, 2}

StKinds == {"Text", "WritableTextView", "TextBuffer", "String"}

\* The texts appended or set: for a String, runs of one unit as long as the
\* inline buffer or a little more or less; for the others, every text up to
\* one unit more than the largest capacity.
StArgs ==
    IF stKind = "String"
    THEN {[i \in 1..n |-> 1] : n \in {0, 1, KOwnTextLength, KOwnTextLength + 1}}
    ELSE SeqsUpTo(StUnits, MaxCapacity + 1)

\* A Writable that is true of every kind of string.
WritableAlways == TRUE

\* Writable()
Writable == stKind # "Text"

\* MaxWritableLength()
MaxWritableLength ==
    CASE stKind = "Text" -> 0
      [] stKind = "String" -> iReserved
      [] OTHER -> iMaxLength

\* The cell at index i (from 1) of a memory; beyond its last cell, memory
\* that belongs to something else.
Cell(mem, i) == IF i \in 1..Len(mem) THEN mem[i] ELSE GuardCells[1]

\* Data() and Length(): the text of the string.
Data == [i \in 1..iLength |-> Cell(stMem, i)]

\* The cells after the string's own.
CellsAfter(mem) == SubSeq(mem, Len(mem) - Len(GuardCells) + 1, Len(mem))

\* A memcpy that stops one unit short.
MemcpyOneShort(mem, aOffset, aSource, aCount) ==
    [i \in 1..Len(mem) |->
        IF i > aOffset /\ i < aOffset + aCount
        THEN Cell(aSource, i - aOffset)
        ELSE mem[i]]

\* memcpy(WritableText() + aOffset,aSource,aCount * 2)
Memcpy(mem, aOffset, aSource, aCount) ==
    [i \in 1..Len(mem) |->
        IF i > aOffset /\ i <= aOffset + aCount
        THEN Cell(aSource, i - aOffset)
        ELSE mem[i]]

\* The string as it is: what ResizeBuffer and memcpy work on.
Current == [length |-> iLength, mem |-> stMem, reserved |-> iReserved,
            heap |-> stHeap]

\* A ResizeBuffer that takes the length asked for, whatever the capacity.
UnclampedLength(aNewLength, aMaxLength) == aNewLength

\* std::min(aNewLength,iMaxLength)
ClampedLength(aNewLength, aMaxLength) == Min(aNewLength, aMaxLength)

\* A String::ResizeBuffer that goes back to the inline buffer when the text
\* fits in it.
StringResizedOrInlined(s, aNewLength) ==
    IF aNewLength <= KOwnTextLength
    THEN [length |-> aNewLength,
          mem |-> [i \in 1..KOwnTextLength |-> Cell(s.mem, i)] \o GuardCells,
          reserved |-> KOwnTextLength,
          heap |-> FALSE]
    ELSE [length |-> aNewLength,
          mem |-> [i \in 1..(aNewLength * stGrowth) |->
                      IF i <= s.length THEN s.mem[i] ELSE stFill]
                  \o GuardCells,
          reserved |-> aNewLength * stGrowth,
          heap |-> TRUE]

\* String::ResizeBuffer: a length within what is reserved is taken as it
\* is; a longer one gets a new allocation, to which the text is copied.
StringResized(s, aNewLength) ==
    IF aNewLength <= s.reserved THEN [s EXCEPT !.length = aNewLength]
    ELSE [length |-> aNewLength,
          mem |-> [i \in 1..(aNewLength * stGrowth) |->
                      IF i <= s.length THEN s.mem[i] ELSE stFill]
                  \o GuardCells,
          reserved |-> aNewLength * stGrowth,
          heap |-> TRUE]

\* ResizeBuffer(aNewLength) of the string's kind.
Resized(s, aNewLength) ==
    CASE stKind = "Text" -> s
      [] stKind = "String" -> StringResized(s, aNewLength)
      [] OTHER -> [s EXCEPT !.length = ClampedLength(aNewLength, iMaxLength)]

\* The string takes the values of s.
Becomes(s) ==
    /\ iLength' = s.length
    /\ stMem' = s.mem
    /\ iReserved' = s.reserved
    /\ stHeap' = s.heap

\* if (!Writable()) { assert(false); return; }: in a debug build the
\* assertion ends the program.
NotWritable ==
    /\ ~Writable
    /\ stAborted' = (stBuild = "debug")
    /\ UNCHANGED <<iLength, stMem, iReserved, stHeap>>

\* A String is taken no further than MaxHeapExtra beyond its inline buffer.
WithinBounds(aNewLength) ==
    stKind = "String" => aNewLength <= KOwnTextLength + MaxHeapExtra

StIdle ==
    /\ stKind = "none"
    /\ stBuild = "none"
    /\ stFill = 0
    /\ stGrowth = 0
    /\ iLength = 0
    /\ iMaxLength = 0
    /\ iReserved = 0
    /\ stMem = <<>>
    /\ stHeap = FALSE
    /\ stOp = "none"
    /\ stArg = <<>>
    /\ stAborted = FALSE

\* A constructor that copies the whole of the 8-bit string.
CopiedLengthOfAll(aText, aMaxLength, aLength) == Len(aText) - 1

\* while (*aText && iLength < aMaxLength) iText[iLength++] = *aText++:
\* the length at which the loop of TextBuffer(const char*) stops, aText
\* being the null-terminated string and aLength the length so far.
RECURSIVE CopiedLength(_, _, _)
CopiedLength(aText, aMaxLength, aLength) ==
    IF aText[aLength + 1] # 0 /\ aLength < aMaxLength
    THEN CopiedLength(aText, aMaxLength, aLength + 1)
    ELSE aLength

\* Text(aText,aLength), WritableTextView(aText,aLength), TextBuffer<N>(),
\* TextBuffer<N>(const char*) and String().  stArg is the 8-bit string a
\* TextBuffer was constructed from.
StInit ==
    /\ stKind \in StKinds
    /\ stBuild \in {"release", "debug"}
    /\ stFill \in GarbageUnits
    /\ stGrowth \in {1, 2}
    /\ stHeap = FALSE
    /\ stOp = "none"
    /\ stAborted = FALSE
    /\ CASE stKind = "Text" ->
              /\ \E text \in SeqsUpTo(StUnits, MaxCapacity) :
                    /\ stMem = text \o GuardCells
                    /\ iLength = Len(text)
              /\ iMaxLength = 0
              /\ iReserved = 0
              /\ stArg = <<>>
         [] stKind = "WritableTextView" ->
              /\ \E text \in SeqsUpTo(StUnits, MaxCapacity) :
                    /\ stMem = text \o GuardCells
                    /\ iLength = Len(text)
                    /\ iMaxLength = Len(text)
              /\ iReserved = 0
              /\ stArg = <<>>
         [] stKind = "TextBuffer" ->
              /\ iMaxLength \in 1..MaxCapacity
              /\ stArg \in SeqsUpTo(StUnits, MaxCapacity + 1)
              /\ iLength = CopiedLength(Append(stArg, 0), iMaxLength, 0)
              /\ stMem = [i \in 1..iMaxLength |->
                              IF i <= iLength THEN stArg[i] ELSE stFill]
                         \o GuardCells
              /\ iReserved = 0
         [] stKind = "String" ->
              /\ iReserved = KOwnTextLength
              /\ stMem = [i \in 1..KOwnTextLength |-> 0] \o GuardCells
              /\ iLength = 0
              /\ iMaxLength = 0
              /\ stArg = <<>>

\* MString::Clear
Clear ==
    /\ ~stAborted
    /\ stOp' = "Clear"
    /\ stArg' = <<>>
    /\ \/ NotWritable
       \/ /\ Writable
          /\ Becomes(Resized(Current, 0))
          /\ UNCHANGED stAborted
    /\ UNCHANGED <<stKind, stBuild, stFill, stGrowth, iMaxLength>>

\* MString::SetLengthToZero: iLength = 0, whatever the kind of string.
SetLengthToZero ==
    /\ ~stAborted
    /\ stOp' = "SetLengthToZero"
    /\ stArg' = <<>>
    /\ iLength' = 0
    /\ UNCHANGED <<stKind, stBuild, stFill, stGrowth, iMaxLength, iReserved,
                   stMem, stHeap, stAborted>>

\* MString::Append(const MString& aString)
AppendString ==
    /\ ~stAborted
    /\ \E aString \in StArgs :
          /\ WithinBounds(iLength + Len(aString))
          /\ stOp' = "Append"
          /\ stArg' = aString
          /\ \/ NotWritable
             \/ /\ Writable
                /\ LET old_length == iLength
                       s == Resized(Current, iLength + Len(aString))
                   IN  Becomes([s EXCEPT !.mem =
                                   Memcpy(s.mem, old_length, aString,
                                          s.length - old_length)])
                /\ UNCHANGED stAborted
    /\ UNCHANGED <<stKind, stBuild, stFill, stGrowth, iMaxLength>>

\* MString::Append(const uint16_t* aText,size_t aLength): the length is
\* given, or is npos and the text ends with a zero.
AppendUnits ==
    /\ ~stAborted
    /\ \E text \in StArgs : \E given \in {npos, Len(text)} :
          /\ WithinBounds(iLength + Len(text))
          /\ stOp' = "Append"
          /\ stArg' = text
          /\ \/ NotWritable
             \/ /\ Writable
                /\ LET aText == Append(text, 0)
                       aLength == IF given = npos
                                  THEN TerminatedLength(aText, 0) ELSE given
                       old_length == iLength
                       s == Resized(Current, iLength + aLength)
                   IN  Becomes([s EXCEPT !.mem =
                                   Memcpy(s.mem, old_length, aText,
                                          s.length - old_length)])
                /\ UNCHANGED stAborted
    /\ UNCHANGED <<stKind, stBuild, stFill, stGrowth, iMaxLength>>

\* MString::Set(const MString& aString)
SetString ==
    /\ ~stAborted
    /\ \E aString \in StArgs :
          /\ stOp' = "Set"
          /\ stArg' = aString
          /\ \/ NotWritable
             \/ /\ Writable
                /\ LET s == Resized(Current, Len(aString))
                   IN  Becomes([s EXCEPT !.mem =
                                   Memcpy(s.mem, 0, aString, s.length)])
                /\ UNCHANGED stAborted
    /\ UNCHANGED <<stKind, stBuild, stFill, stGrowth, iMaxLength>>

\* MString::Set(const uint16_t* aText,size_t aLength)
SetUnits ==
    /\ ~stAborted
    /\ \E text \in StArgs : \E given \in {npos, Len(text)} :
          /\ stOp' = "Set"
          /\ stArg' = text
          /\ \/ NotWritable
             \/ /\ Writable
                /\ LET aText == Append(text, 0)
                       aLength == IF given = npos
                                  THEN TerminatedLength(aText, 0) ELSE given
                       s == Resized(Current, aLength)
                   IN  Becomes([s EXCEPT !.mem =
                                   Memcpy(s.mem, 0, aText, s.length)])
                /\ UNCHANGED stAborted
    /\ UNCHANGED <<stKind, stBuild, stFill, stGrowth, iMaxLength>>

(***************************************************************************)
(* Part 11: a StringMatchMethod object.  Its operators, Flags, FromFlags   *)
(* and the constructor from an integer are inline in the header; the       *)
(* constructor from up to six flags is declared only and is modelled as    *)
(* the union of the flags.                                                 *)
(***************************************************************************)

\* FromFlags is tried with every integer up to this one, and with integers
\* at and beyond the sixth bit.
MaxRawFlags == 3

RawFlags ==
    (0..MaxRawFlags) \cup {63, 64, 65, 127, 65535, 65536 + 5, 2147483647}

\* The values of enum class StringMatchMethodFlag, Exact (0) among them.
MethodFlags ==
    {0, FlagPrefix, FlagIgnoreSymbols, FlagFoldAccents, FlagFuzzy,
     FlagFoldCase, FlagIgnoreWhitespace}

\* The lists of flags a method is constructed from: one flag, two, or six.
FlagLists == {l \in SUBSET MethodFlags : Cardinality(l) \in {1, 2, 6}}

\* A constructor from an integer that keeps all the bits of a uint16_t.
UnmaskedFlags(aFlags) == aFlags % 65536

\* StringMatchMethod(unsigned int aFlags): m_flags(uint16_t(aFlags & 63))
MaskedFlags(aFlags) == BitAnd(aFlags, 63) % 65536

\* A += that adds the flag's value.
FlagsPlusValue(aFlags, aFlag) == (aFlags + aFlag) % 65536

\* operator+=: m_flags |= uint16_t(aFlag)
FlagsWith(aFlags, aFlag) == BitOr(aFlags, aFlag)

\* operator-=: m_flags &= ~uint16_t(aFlag)
FlagsWithout(aFlags, aFlag) == BitAnd(aFlags, 65535 - aFlag)

\* StringMatchMethod(aFlag1,...,aFlag6): all the flags given.
RECURSIVE FlagsOf(_)
FlagsOf(aFlagSet) ==
    IF aFlagSet = {} THEN 0
    ELSE LET f == CHOOSE x \in aFlagSet : TRUE
         IN  BitOr(f, FlagsOf(aFlagSet \ {f}))

MmIdle ==
    /\ m_flags = 0
    /\ mmBefore = 0
    /\ mmOp = "none"
    /\ mmArg = 0
    /\ mmReturned = 0

\* StringMatchMethod() = default: m_flags = 0
MmInit ==
    /\ m_flags = 0
    /\ mmBefore = 0
    /\ mmOp = "StringMatchMethod"
    /\ mmArg = 0
    /\ mmReturned = 0

\* method = StringMatchMethod::FromFlags(aFlags)
FromFlags ==
    \E aFlags \in RawFlags :
        /\ mmBefore' = m_flags
        /\ m_flags' = MaskedFlags(aFlags)
        /\ mmOp' = "FromFlags"
        /\ mmArg' = aFlags
        /\ mmReturned' = m_flags'

\* method = StringMatchMethod(aFlag1,...)
ConstructFromFlagList ==
    \E aFlagSet \in FlagLists :
        /\ mmBefore' = m_flags
        /\ m_flags' = FlagsOf(aFlagSet)
        /\ mmOp' = "StringMatchMethod"
        /\ mmArg' = FlagsOf(aFlagSet)
        /\ mmReturned' = m_flags'

\* method += aFlag: the object's flags are changed and a copy is returned.
PlusAssign ==
    \E aFlag \in MethodFlags :
        /\ mmBefore' = m_flags
        /\ m_flags' = FlagsWith(m_flags, aFlag)
        /\ mmOp' = "+="
        /\ mmArg' = aFlag
        /\ mmReturned' = m_flags'

\* method -= aFlag: the object's flags are changed and a copy is returned.
MinusAssign ==
    \E aFlag \in MethodFlags :
        /\ mmBefore' = m_flags
        /\ m_flags' = FlagsWithout(m_flags, aFlag)
        /\ mmOp' = "-="
        /\ mmArg' = aFlag
        /\ mmReturned' = m_flags'

\* method.Flags()
Flags ==
    /\ mmBefore' = m_flags
    /\ mmOp' = "Flags"
    /\ mmArg' = 0
    /\ mmReturned' = m_flags
    /\ UNCHANGED m_flags

\* method & aFlag, and method.MayIgnoreCharacters() for the two flags
\* together
TestFlags ==
    \E aFlag \in MethodFlags \cup {FlagIgnoreSymbols + FlagIgnoreWhitespace} :
        /\ mmBefore' = m_flags
        /\ mmOp' = "&"
        /\ mmArg' = aFlag
        /\ mmReturned' = (BitAnd(m_flags, aFlag) # 0)
        /\ UNCHANGED m_flags

\* method == aOther, aOther being FromFlags(aFlags); method != aOther is
\* its negation.
Equals ==
    \E aFlags \in {0, FlagFoldCase, 63, m_flags, m_flags + 64} :
        /\ mmBefore' = m_flags
        /\ mmOp' = "=="
        /\ mmArg' = aFlags
        /\ mmReturned' = (m_flags = MaskedFlags(aFlags))
        /\ UNCHANGED m_flags

(***************************************************************************)
(* Part 12: the file-position width of an InputStream.  ReadFilePos,       *)
(* ReadFilePosWithDegreeSquare, FilePosBytes, SetFilePosBytes and the fast *)
(* paths of ReadUint40, ReadUint48 and ReadUint56 are inline in            *)
(* cartotype_stream.h; ReadUint32 and the helpers that refill the buffer   *)
(* are declared only and are modelled from the class documentation: an     *)
(* integer of n bytes is the next n bytes, the most significant first, and *)
(* a stream with fewer than n bytes left throws KErrorEndOfData.  An       *)
(* integer read is kept as its bytes, a 40-bit number being too large for  *)
(* the model checker's integers.                                           *)
(***************************************************************************)

\* The most bytes a stream holds.
MaxStreamLen == 7

StreamBytes == {1, 255}

Streams == SeqsUpTo(StreamBytes, MaxStreamLen)

\* The arguments given to SetFilePosBytes.
FilePosArgs == {-1, 0, 3, 4, 5, 6, 8}

\* ReadUint32, ReadUint40, ReadUint48, ReadUint56: the next aSize bytes as a
\* big-endian integer, or KErrorEndOfData.
ReadUintOfBytes(aSize) ==
    IF Len(isData) >= aSize
    THEN /\ isValue' = SubSeq(isData, 1, aSize)
         /\ isData' = SubSeq(isData, aSize + 1, Len(isData))
         /\ isThrown' = "none"
    ELSE /\ isValue' = <<>>
         /\ isData' = <<>>
         /\ isThrown' = "KErrorEndOfData"

IsIdle ==
    /\ m_file_pos_bytes = 4
    /\ isBefore = 4
    /\ isData = <<>>
    /\ isOp = "none"
    /\ isArg = 0
    /\ isThrown = "none"
    /\ isValue = <<>>
    /\ isReturned = 0

\* A new InputStream: int32_t m_file_pos_bytes = 4.
IsInit ==
    /\ m_file_pos_bytes = 4
    /\ isBefore = 4
    /\ isData \in Streams
    /\ isOp = "InputStream"
    /\ isArg = 0
    /\ isThrown = "none"
    /\ isValue = <<>>
    /\ isReturned = 0

\* A SetFilePosBytes that stores whatever it is given.
SetFilePosBytesUnchecked ==
    \E aBytes \in FilePosArgs :
        /\ isBefore' = m_file_pos_bytes
        /\ isOp' = "SetFilePosBytes"
        /\ isArg' = aBytes
        /\ isThrown' = "none"
        /\ m_file_pos_bytes' = aBytes
        /\ isValue' = <<>>
        /\ isReturned' = 0
        /\ UNCHANGED isData

\* InputStream::SetFilePosBytes
SetFilePosBytes ==
    \E aBytes \in FilePosArgs :
        /\ isBefore' = m_file_pos_bytes
        /\ isOp' = "SetFilePosBytes"
        /\ isArg' = aBytes
        /\ IF aBytes # 4 /\ aBytes # 5
           THEN /\ isThrown' = "KErrorInvalidArgument"
                /\ UNCHANGED m_file_pos_bytes
           ELSE /\ isThrown' = "none"
                /\ m_file_pos_bytes' = aBytes
        /\ isValue' = <<>>
        /\ isReturned' = 0
        /\ UNCHANGED isData

\* InputStream::FilePosBytes
FilePosBytes ==
    /\ isBefore' = m_file_pos_bytes
    /\ isOp' = "FilePosBytes"
    /\ isArg' = 0
    /\ isThrown' = "none"
    /\ isValue' = <<>>
    /\ isReturned' = m_file_pos_bytes
    /\ UNCHANGED <<m_file_pos_bytes, isData>>

\* InputStream::ReadFilePos
ReadFilePos ==
    /\ isBefore' = m_file_pos_bytes
    /\ isOp' = "ReadFilePos"
    /\ isArg' = 0
    /\ isReturned' = 0
    /\ IF m_file_pos_bytes = 4 THEN ReadUintOfBytes(4) ELSE ReadUintOfBytes(5)
    /\ UNCHANGED m_file_pos_bytes

\* InputStream::ReadFilePosWithDegreeSquare
ReadFilePosWithDegreeSquare ==
    /\ isBefore' = m_file_pos_bytes
    /\ isOp' = "ReadFilePosWithDegreeSquare"
    /\ isArg' = 0
    /\ isReturned' = 0
    /\ IF m_file_pos_bytes = 4 THEN ReadUintOfBytes(6) ELSE ReadUintOfBytes(7)
    /\ UNCHANGED m_file_pos_bytes

(***************************************************************************)
(* Part 13: ExpressionValue::Compare.  The class is inline in              *)
(* cartotype_expression.h.  A double is a record: nan is TRUE for NAN, and *)
(* value is the number otherwise.  iString is <<>> for a null pointer (the *)
(* constructors never store an empty string).  ValueOfLiteral is declared  *)
(* only; the strings here are letters, whose value is NAN.                 *)
(* MString::Compare(const MString&,StringMatchMethod) is declared only and *)
(* is what Part 7 models: the 5-way compare of the folded strings, or with *)
(* the Fuzzy flag the result of FuzzyCompare.                              *)
(***************************************************************************)

\* The longest string held by a value.
MaxExLen == 2

\* E, e and E-acute.
ExCodes == {69, 101, 201}

ExNumbers == {0, 1}

NAN == [nan |-> TRUE, value |-> 0]

Double(aNumber) == [nan |-> FALSE, value |-> aNumber]

\* operator== on doubles: false whenever either is NAN.
DoubleEquals(a, b) == ~a.nan /\ ~b.nan /\ a.value = b.value

\* ExpressionValue(): undefined.
UndefinedValue == [iNumber |-> NAN, iString |-> <<>>]

\* ExpressionValue(double aNumber)
NumberValue(aNumber) == [iNumber |-> aNumber, iString |-> <<>>]

\* ExpressionValue(double aNumber,const MString& aString): the string is
\* kept if it is not empty.
NumberAndStringValue(aNumber, aString) ==
    [iNumber |-> aNumber, iString |-> aString]

\* ExpressionValue(const MString& aString): the string is kept if it is not
\* empty and the number is its value as a literal.
StringValue(aString) ==
    NumberAndStringValue(NAN, aString)

ExpressionValues ==
    {UndefinedValue}
        \cup {NumberValue(Double(n)) : n \in ExNumbers}
        \cup {StringValue(s) : s \in SeqsUpTo(ExCodes, MaxExLen)}
        \cup {NumberAndStringValue(Double(1), s) :
                  s \in SeqsUpTo(ExCodes, MaxExLen)}

\* MString::Compare(aString,aStringMatchMethod): a FoldingIterator over each
\* string and Compare(aIter1,aIter2,aStringMatchMethod) over the two.
CompareWithMethod(aThis, aString, aFlags) ==
    IF HasFlag(aFlags, FlagFuzzy)
    THEN FuzzyCompare(Folded(aThis, aFlags), Folded(aString, aFlags),
                      KMaxFuzzyDistance)
    ELSE Compare(Folded(aThis, aFlags), Folded(aString, aFlags))

\* ExpressionValue::Compare
ExpressionValueCompare(aThis, aOther, aMethod) ==
    IF aThis.iString # <<>> /\ aOther.iString # <<>>
    THEN CompareWithMethod(aThis.iString, aOther.iString, aMethod) = 0
    ELSE \/ DoubleEquals(aThis.iNumber, aOther.iNumber)
         \/ aThis.iNumber.nan /\ aOther.iNumber.nan

ExIdle ==
    /\ exThis = UndefinedValue
    /\ exOther = UndefinedValue
    /\ exMethod = 0
    /\ exResult = FALSE
    /\ exDone = FALSE

ExInit ==
    /\ exThis \in ExpressionValues
    /\ exOther \in ExpressionValues
    /\ exMethod \in CmMethods
    /\ exResult = FALSE
    /\ exDone = FALSE

\* value.Compare(aOther,aMethod)
CallExpressionValueCompare ==
    /\ ~exDone
    /\ exResult' = ExpressionValueCompare(exThis, exOther, exMethod)
    /\ exDone' = TRUE
    /\ UNCHANGED <<exThis, exOther, exMethod>>

(***************************************************************************)
(* Part 14: the overloads of the lexicographic compare and the operators   *)
(* built on them: Compare of null-terminated text, Compare of text with a  *)
(* length, Compare(const MString&) on a Text, operator== on a string and   *)
(* on null-terminated text, and the operators <, <=, > and >=.  All are    *)
(* inline in the header.  Null-terminated text is the text in memory with  *)
(* a zero unit after it.                                                   *)
(***************************************************************************)

\* The longest string and the longest other text.
MaxCoLen == 2

\* Zero, a small unit and one with the top bit set.
CoUnits == {0, 1, 32768}

CoStrings == SeqsUpTo(CoUnits, MaxCoLen)

\* The text in memory, null-terminated.
NullTerminated(aText) == aText \o <<0>>

\* A Compare(const uint16_t*) that looks for the end of aText only after it
\* has compared the units.
RECURSIVE CompareNullTerminatedLoopLate(_, _, _, _)
CompareNullTerminatedLoopLate(a, aText, n, i) ==
    IF n # 0
    THEN IF UnitLess(a[i], aText[i]) THEN -2
         ELSE IF UnitGreater(a[i], aText[i]) THEN 2
         ELSE IF aText[i] = 0 THEN 1
         ELSE CompareNullTerminatedLoopLate(a, aText, n - 1, i + 1)
    ELSE IF aText[i] = 0 THEN 0 ELSE -1

\* The loop of Compare(const uint16_t* aText): n counts the units left of
\* this string and i is the offset of p and q (1-based here).
RECURSIVE CompareNullTerminatedLoop(_, _, _, _)
CompareNullTerminatedLoop(a, aText, n, i) ==
    IF n # 0
    THEN IF aText[i] = 0 THEN 1
         ELSE IF UnitLess(a[i], aText[i]) THEN -2
         ELSE IF UnitGreater(a[i], aText[i]) THEN 2
         ELSE CompareNullTerminatedLoop(a, aText, n - 1, i + 1)
    ELSE IF aText[i] = 0 THEN 0 ELSE -1

\* MString::Compare(const uint16_t* aText)
CompareNullTerminated(a, aText) ==
    CompareNullTerminatedLoop(a, aText, Len(a), 1)

\* MString::Compare(const uint16_t* aText,size_t aLength)
CompareWithLength(a, aText, aLength) ==
    IF aLength = npos THEN CompareNullTerminated(a, aText)
    ELSE CompareLoop(a, aText, Len(a), aLength, 1)

\* An operator== that compares the lengths only.
EqualsStringByLength(a, aString) == Len(aString) = Len(a)

\* MString::operator==(const MString& aString): the lengths and memcmp.
EqualsString(a, aString) ==
    /\ Len(aString) = Len(a)
    /\ \A i \in 1..Len(a) : aString[i] = a[i]

\* The loop of operator==(const uint16_t* aText): the offset at which it
\* stops (1-based).
RECURSIVE EqualsNullTerminatedLoop(_, _, _)
EqualsNullTerminatedLoop(a, aText, i) ==
    IF i <= Len(a) /\ aText[i] # 0 /\ a[i] = aText[i]
    THEN EqualsNullTerminatedLoop(a, aText, i + 1)
    ELSE i

\* MString::operator==(const uint16_t* aText)
EqualsNullTerminated(a, aText) ==
    LET i == EqualsNullTerminatedLoop(a, aText, 1)
    IN  i = Len(a) + 1 /\ aText[i] = 0

\* The calls made: coResult maps each call made so far to what it returned.
CoCalls ==
    {"Compare(Text)", "Compare(text)", "Compare(text,length)",
     "Compare(text,npos)", "==", "==(text)", "relational"}

CoIdle ==
    /\ coThis = <<>>
    /\ coText = <<>>
    /\ coResult = [c \in {} |-> 0]

CoInit ==
    /\ coThis \in CoStrings
    /\ coText \in CoStrings
    /\ coResult = [c \in {} |-> 0]

\* The result of a call is kept.
Returned(aCall, aValue) ==
    /\ aCall \in CoCalls \ DOMAIN coResult
    /\ coResult' = [c \in DOMAIN coResult \cup {aCall} |->
                        IF c = aCall THEN aValue ELSE coResult[c]]
    /\ UNCHANGED <<coThis, coText>>

\* s.Compare(Text(text)): the Text is made from the null-terminated text.
CallCompareText ==
    Returned("Compare(Text)",
             Compare(coThis, TextRead(NullTerminated(coText), npos)))

\* s.Compare(text)
CallCompareNullTerminated ==
    Returned("Compare(text)",
             CompareNullTerminated(coThis, NullTerminated(coText)))

\* s.Compare(text,length), length being the number of units of the text
CallCompareWithLength ==
    Returned("Compare(text,length)",
             CompareWithLength(coThis, NullTerminated(coText), Len(coText)))

\* s.Compare(text,npos)
CallCompareWithNpos ==
    Returned("Compare(text,npos)",
             CompareWithLength(coThis, NullTerminated(coText), npos))

\* s == other, other being a string that holds the text
CallEqualsString ==
    Returned("==", EqualsString(coThis, coText))

\* s == text
CallEqualsNullTerminated ==
    Returned("==(text)", EqualsNullTerminated(coThis, NullTerminated(coText)))

\* s < other, s <= other, s > other and s >= other, each Compare(aOther)
\* against 0.
CallRelational ==
    Returned("relational",
             [lt |-> Compare(coThis, coText) < 0,
              le |-> Compare(coThis, coText) <= 0,
              gt |-> Compare(coThis, coText) > 0,
              ge |-> Compare(coThis, coText) >= 0])

(***************************************************************************)
(* Part 15: VariableDictionary.  The class is inline in                    *)
(* cartotype_expression.h; iDictionary is a std::map from String to        *)
(* String, modelled as a function from the names it holds to their values. *)
(***************************************************************************)

\* The longest variable name.
MaxNameLen == 2

\* The names: runs of the letter a, the empty name among them.
VdNames == SeqsUpTo({97}, MaxNameLen)

\* The values set: the empty string, "E" and "e".
VdValues == {<<>>, <<69>>, <<101>>}

VdIndexes == {-1, 0, 1}

\* A Set that stores the value whether it is empty or not.
DictionaryWithAlways(aDictionary, aVariableName, aValue) ==
    [k \in DOMAIN aDictionary \cup {aVariableName} |->
        IF k = aVariableName THEN aValue ELSE aDictionary[k]]

\* iDictionary[aVariableName] = aValue if the value is not empty, and
\* iDictionary.erase(aVariableName) if it is.
DictionaryWith(aDictionary, aVariableName, aValue) ==
    IF Len(aValue) # 0
    THEN [k \in DOMAIN aDictionary \cup {aVariableName} |->
             IF k = aVariableName THEN aValue ELSE aDictionary[k]]
    ELSE [k \in DOMAIN aDictionary \ {aVariableName} |-> aDictionary[k]]

VdIdle ==
    /\ iDictionary = [k \in {} |-> <<>>]
    /\ vdLatest = [k \in {} |-> <<>>]
    /\ vdOp = "none"
    /\ vdArg = <<>>
    /\ vdFound = FALSE
    /\ vdValue = UndefinedValue

\* A new VariableDictionary, and the caller's ExpressionValue.
VdInit ==
    /\ iDictionary = [k \in {} |-> <<>>]
    /\ vdLatest = [k \in {} |-> <<>>]
    /\ vdOp = "VariableDictionary"
    /\ vdArg = <<>>
    /\ vdFound = FALSE
    /\ vdValue = UndefinedValue

\* VariableDictionary::Set
VariableDictionarySet ==
    \E aVariableName \in VdNames, aValue \in VdValues :
        /\ iDictionary' = DictionaryWith(iDictionary, aVariableName, aValue)
        /\ vdLatest' = [k \in DOMAIN vdLatest \cup {aVariableName} |->
                           IF k = aVariableName THEN aValue ELSE vdLatest[k]]
        /\ vdOp' = "Set"
        /\ vdArg' = aVariableName
        /\ UNCHANGED <<vdFound, vdValue>>

\* VariableDictionary::Find(const MString& aKey,ExpressionValue& aValue,...):
\* aValue = p->second makes an ExpressionValue of the string.
FindByName ==
    \E aKey \in VdNames :
        /\ vdOp' = "Find"
        /\ vdArg' = aKey
        /\ IF aKey \in DOMAIN iDictionary
           THEN /\ vdValue' = StringValue(iDictionary[aKey])
                /\ vdFound' = TRUE
           ELSE /\ vdFound' = FALSE
                /\ UNCHANGED vdValue
        /\ UNCHANGED <<iDictionary, vdLatest>>

\* VariableDictionary::Find(int32_t aIndex,ExpressionValue& aValue,...)
FindByIndex ==
    \E aIndex \in VdIndexes :
        /\ vdOp' = "Find(index)"
        /\ vdArg' = <<aIndex>>
        /\ vdFound' = FALSE
        /\ UNCHANGED <<iDictionary, vdLatest, vdValue>>

(***************************************************************************)
(* Specifications.  Idle(part) keeps every other part at rest.             *)
(***************************************************************************)

Idle(part) ==
    /\ IF part # "cmp" THEN CmpIdle ELSE TRUE
    /\ IF part # "fz" THEN FzIdle ELSE TRUE
    /\ IF part # "at" THEN AtIdle ELSE TRUE
    /\ IF part # "ab" THEN AbIdle ELSE TRUE
    /\ IF part # "fd" THEN FdIdle ELSE TRUE
    /\ IF part # "uc" THEN UcIdle ELSE TRUE
    /\ IF part # "cm" THEN CmIdle ELSE TRUE
    /\ IF part # "fn" THEN FnIdle ELSE TRUE
    /\ IF part # "wm" THEN WmIdle ELSE TRUE
    /\ IF part # "st" THEN StIdle ELSE TRUE
    /\ IF part # "mm" THEN MmIdle ELSE TRUE
    /\ IF part # "is" THEN IsIdle ELSE TRUE
    /\ IF part # "ex" THEN ExIdle ELSE TRUE
    /\ IF part # "co" THEN CoIdle ELSE TRUE
    /\ IF part # "vd" THEN VdIdle ELSE TRUE

Frame(part) ==
    /\ IF part # "cmp" THEN UNCHANGED cmpVars ELSE TRUE
    /\ IF part # "fz" THEN UNCHANGED fzVars ELSE TRUE
    /\ IF part # "at" THEN UNCHANGED atVars ELSE TRUE
    /\ IF part # "ab" THEN UNCHANGED abVars ELSE TRUE
    /\ IF part # "fd" THEN UNCHANGED fdVars ELSE TRUE
    /\ IF part # "uc" THEN UNCHANGED ucVars ELSE TRUE
    /\ IF part # "cm" THEN UNCHANGED cmVars ELSE TRUE
    /\ IF part # "fn" THEN UNCHANGED fnVars ELSE TRUE
    /\ IF part # "wm" THEN UNCHANGED wmVars ELSE TRUE
    /\ IF part # "st" THEN UNCHANGED stVars ELSE TRUE
    /\ IF part # "mm" THEN UNCHANGED mmVars ELSE TRUE
    /\ IF part # "is" THEN UNCHANGED isVars ELSE TRUE
    /\ IF part # "ex" THEN UNCHANGED exVars ELSE TRUE
    /\ IF part # "co" THEN UNCHANGED coVars ELSE TRUE
    /\ IF part # "vd" THEN UNCHANGED vdVars ELSE TRUE

InitCompare == CmpInit /\ Idle("cmp")

NextCompare == CompareStrings /\ Frame("cmp")

SpecCompare == InitCompare /\ [][NextCompare]_vars

InitFuzzy == FzInit /\ Idle("fz")

NextFuzzy == FuzzyMatchTexts /\ Frame("fz")

SpecFuzzy == InitFuzzy /\ [][NextFuzzy]_vars

InitAttributes == AtInit /\ Idle("at")

NextAttributes ==
    \/ CallSetAttribute /\ Frame("at")
    \/ CallNextAttribute /\ Frame("at")

SpecAttributes == InitAttributes /\ [][NextAttributes]_vars

InitAbbreviate == AbInit /\ Idle("ab")

NextAbbreviate ==
    \/ AddAbbreviation /\ Frame("ab")
    \/ AbbreviateText /\ Frame("ab")

SpecAbbreviate == InitAbbreviate /\ [][NextAbbreviate]_vars

InitFold == FdInit /\ Idle("fd")

NextFold ==
    \/ FoldingNext /\ Frame("fd")
    \/ FoldingBack /\ Frame("fd")
    \/ FoldAgain /\ Frame("fd")

SpecFold == InitFold /\ [][NextFold]_vars

InitConvert == UcInit /\ Idle("uc")

NextConvert ==
    \/ CallCreateUtf8String /\ Frame("uc")
    \/ ConstructFromUtf8 /\ Frame("uc")
    \/ CallCreateUtf16String /\ Frame("uc")
    \/ ConstructFromUtf16 /\ Frame("uc")

SpecConvert == InitConvert /\ [][NextConvert]_vars

InitCompareMethod == CmInit /\ Idle("cm")

NextCompareMethod ==
    \/ CompareFuzzily /\ Frame("cm")
    \/ CompareNextCodes /\ Frame("cm")

SpecCompareMethod == InitCompareMethod /\ [][NextCompareMethod]_vars

InitFind == FnInit /\ Idle("fn")

NextFind == CallFind /\ Frame("fn")

SpecFind == InitFind /\ [][NextFind]_vars

InitWildMatch == WmInit /\ Idle("wm")

NextWildMatch ==
    \/ WildMatchStep /\ Frame("wm")
    \/ WildMatchEnd /\ Frame("wm")

SpecWildMatch == InitWildMatch /\ [][NextWildMatch]_vars

InitStorage == StInit /\ Idle("st")

NextStorage ==
    \/ Clear /\ Frame("st")
    \/ AppendString /\ Frame("st")
    \/ AppendUnits /\ Frame("st")
    \/ SetString /\ Frame("st")
    \/ SetUnits /\ Frame("st")
    \/ SetLengthToZero /\ Frame("st")

SpecStorage == InitStorage /\ [][NextStorage]_vars

InitMethod == MmInit /\ Idle("mm")

NextMethod ==
    \/ FromFlags /\ Frame("mm")
    \/ ConstructFromFlagList /\ Frame("mm")
    \/ PlusAssign /\ Frame("mm")
    \/ MinusAssign /\ Frame("mm")
    \/ Flags /\ Frame("mm")
    \/ TestFlags /\ Frame("mm")
    \/ Equals /\ Frame("mm")

SpecMethod == InitMethod /\ [][NextMethod]_vars

InitStream == IsInit /\ Idle("is")

NextStream ==
    \/ SetFilePosBytes /\ Frame("is")
    \/ FilePosBytes /\ Frame("is")
    \/ ReadFilePos /\ Frame("is")
    \/ ReadFilePosWithDegreeSquare /\ Frame("is")

SpecStream == InitStream /\ [][NextStream]_vars

InitExpression == ExInit /\ Idle("ex")

NextExpression == CallExpressionValueCompare /\ Frame("ex")

SpecExpression == InitExpression /\ [][NextExpression]_vars

InitOverloads == CoInit /\ Idle("co")

NextOverloads ==
    \/ CallCompareText /\ Frame("co")
    \/ CallCompareNullTerminated /\ Frame("co")
    \/ CallCompareWithLength /\ Frame("co")
    \/ CallCompareWithNpos /\ Frame("co")
    \/ CallEqualsString /\ Frame("co")
    \/ CallEqualsNullTerminated /\ Frame("co")
    \/ CallRelational /\ Frame("co")

SpecOverloads == InitOverloads /\ [][NextOverloads]_vars

InitDictionary == VdInit /\ Idle("vd")

NextDictionary ==
    \/ VariableDictionarySet /\ Frame("vd")
    \/ FindByName /\ Frame("vd")
    \/ FindByIndex /\ Frame("vd")

SpecDictionary == InitDictionary /\ [][NextDictionary]_vars

(***************************************************************************)
(* Claims about the lexicographic compare.                                 *)
(***************************************************************************)

IsProperPrefix(a, b) == Len(a) < Len(b) /\ SubSeq(b, 1, Len(a)) = a

\* a and b differ at some index both have, and at the first such index a's
\* unit is the smaller unsigned 16-bit number.
FirstDiffLess(a, b) ==
    \E i \in 1..Min(Len(a), Len(b)) :
        /\ \A j \in 1..(i - 1) : a[j] = b[j]
        /\ a[i] < b[i]

\* C1: Compare(A,B) = -1 iff A is a proper prefix of B, = 1 iff B is a proper
\* prefix of A, and = 0 iff A and B have the same length and units (so
\* Compare(A,A) = 0).
C1_PrefixInvariant ==
    cmpDone =>
        /\ (cmpResult = -1) <=> IsProperPrefix(cmpThis, cmpOther)
        /\ (cmpResult = 1) <=> IsProperPrefix(cmpOther, cmpThis)
        /\ (cmpResult = 0) <=> (cmpThis = cmpOther)

C1_Witness ==
    /\ cmpDone
    /\ cmpResult = -1
    /\ Len(cmpThis) = 2
    /\ Len(cmpOther) = 3

\* C2: the compare is antisymmetric: Compare(A,B) = -Compare(B,A).
C2_Antisymmetry == cmpDone => cmpResult = 0 - cmpReverse

C2_Witness ==
    /\ cmpDone
    /\ cmpResult = 2
    /\ cmpReverse = -2
    /\ Len(cmpThis) < Len(cmpOther)

\* C3: the result is one of -2..2; it is -2 exactly when neither string is a
\* prefix of the other and this string's unit is the smaller unsigned number
\* at the first index where they differ, and +2 exactly in the mirrored case.
C3_FiveWayOrder ==
    cmpDone =>
        /\ cmpResult \in -2..2
        /\ (cmpResult = -2) <=> FirstDiffLess(cmpThis, cmpOther)
        /\ (cmpResult = 2) <=> FirstDiffLess(cmpOther, cmpThis)

\* The first differing units are 2 and 0x8000: less as unsigned, greater as signed.
C3_Witness ==
    /\ cmpDone
    /\ cmpResult = -2
    /\ Len(cmpThis) >= 2
    /\ Len(cmpOther) >= 2
    /\ cmpThis[1] = cmpOther[1]
    /\ cmpThis[2] = 2
    /\ cmpOther[2] = 32768

(***************************************************************************)
(* Claims about fuzzy matching.                                            *)
(***************************************************************************)

\* The edit distance by the full table, with no band and no cap: row i holds
\* the distances of the first i code points of a to every prefix of b.
RECURSIVE EditRow(_, _, _, _, _)
EditRow(prev, acc, i, a, b) ==
    LET j == Len(acc)
        cell == IF j = 0 THEN i
                ELSE Min(prev[j + 1] + 1,
                         Min(acc[j] + 1,
                             prev[j] + (IF a[i] = b[j] THEN 0 ELSE 1)))
    IN  IF j > Len(b) THEN acc ELSE EditRow(prev, Append(acc, cell), i, a, b)

\* Row i starts with i, the distance of the first i code points of a to the
\* empty prefix of b.
RECURSIVE EditRows(_, _, _, _)
EditRows(prev, i, a, b) ==
    IF i > Len(a) THEN prev[Len(b) + 1]
    ELSE LET row == EditRow(prev, <<>>, i, a, b)
         IN  IF row[1] = i THEN EditRows(row, i + 1, a, b) ELSE -1

EditDistance(a, b) == EditRows([j \in 1..(Len(b) + 1) |-> j - 1], 1, a, b)

\* C4: for every cap 0..KMaxFuzzyDistance, FuzzyMatch(A,B,max) is true iff the
\* edit distance of A and B (insertion, deletion, substitution each 1) is at
\* most max; "Picadilly" and "Piccadilly" match with cap 1 and not with cap 0.
C4_FuzzyBound ==
    fzDone =>
        /\ fzMatch <=> (EditDistance(fzText1, fzText2) <= fzMax)
        /\ (fzText1 = Picadilly /\ fzText2 = Piccadilly) =>
               (fzMatch <=> fzMax >= 1)

\* "Picadilly" against "Piccadilly" with cap 1: a match, the distance (1)
\* found inside a band narrower than the texts.
C4_Witness ==
    /\ fzDone
    /\ fzText1 = Picadilly
    /\ fzText2 = Piccadilly
    /\ fzMax = 1
    /\ fzMatch
    /\ fzDistance = 1

(***************************************************************************)
(* Claims about the attribute sub-format.                                  *)
(***************************************************************************)

\* Every pair of the text, by NextAttribute from the start cursor to the end.
RECURSIVE EnumerateFrom(_, _)
EnumerateFrom(t, aPos) ==
    LET r == NextAttribute(t, aPos)
    IN  IF r.ok THEN <<(<<r.key, r.value>>)>> \o EnumerateFrom(t, r.pos)
        ELSE <<>>

\* The pairs the string should hold: every key with a non-empty value.
SurvivingPairs == {<<k, atExpect[k]>> : k \in {x \in AtKeys : atExpect[x] # <<>>}}

\* C5: after SetAttribute(ki,vi) for distinct keys, Attribute(kj) = vj for
\* every j, and NextAttribute from the start cursor yields exactly the pairs
\* with a non-empty value, each once, and then signals the end.
C5_AttributeRoundTrip ==
    ~atRepeat =>
        /\ \A k \in atSetKeys : Attribute(atText, k) = atExpect[k]
        /\ \A i \in 1..Len(atYield) : atYield[i] \in SurvivingPairs
        /\ \A i, j \in 1..Len(atYield) : atYield[i] = atYield[j] => i = j
        /\ atEnd => /\ {atYield[i] : i \in 1..Len(atYield)} = SurvivingPairs
                    /\ atPos = Len(atText)

\* Three distinct keys set, one of them to the empty value, and the
\* enumeration run to its end.
C5_Witness ==
    /\ ~atRepeat
    /\ atSetKeys = AtKeys
    /\ atExpect[<<1>>] = <<>>
    /\ atExpect[<<1, 2>>] = <<1, 1, 1, 2>>
    /\ atEnd
    /\ Len(atYield) = 2

\* C6: after any SetAttribute calls each key occurs in at most one pair and no
\* pair has an empty value; Attribute(k) is the latest value set for k, and
\* empty for a key that is absent or was removed.
C6_OnePairPerKey ==
    LET pairs == EnumerateFrom(atText, 0)
    IN  /\ \A i, j \in 1..Len(pairs) : pairs[i][1] = pairs[j][1] => i = j
        /\ \A i \in 1..Len(pairs) : pairs[i][2] # <<>>
        /\ \A k \in AtKeys : Attribute(atText, k) = atExpect[k]

\* "name" set to "Elm Street" and then to "Oak Street": one pair, the latest
\* value.
C6_Witness ==
    /\ atCalls = 2
    /\ atRepeat
    /\ atSetKeys = {NameKey}
    /\ atText = EncodePair(NameKey, OakStreet)
    /\ Attribute(atText, NameKey) = OakStreet

(***************************************************************************)
(* Claims about abbreviation.                                              *)
(***************************************************************************)

\* The abbreviations of a dictionary: its whole-word entries and its suffix
\* rules.
WordEntries(dict) ==
    {dict.m_abbreviations[k] : k \in DOMAIN dict.m_abbreviations}

SuffixEntries(dict) ==
    {dict.m_suffixes[i][2] : i \in 1..Len(dict.m_suffixes)}

SuffixLongForms(dict) ==
    {dict.m_suffixes[i][1] : i \in 1..Len(dict.m_suffixes)}

\* No short form is itself a long form or matches a suffix rule.
NoShortFormCollision(dict) ==
    \A e \in WordEntries(dict) \cup SuffixEntries(dict) :
        /\ LowerText(e.ShortForm) \notin DOMAIN dict.m_abbreviations
        /\ MatchingSuffixes(dict, LowerText(e.ShortForm)) = {}

\* Nor can a word that ends with a suffix rule's short form be a long form
\* or match a suffix rule: the short form of a suffix rule is the ending of
\* no long form.
NoSplicedCollision(dict) ==
    \A e \in SuffixEntries(dict) :
        /\ \A w \in DOMAIN dict.m_abbreviations :
               ~EndsWith(w, LowerText(e.ShortForm))
        /\ \A x \in SuffixLongForms(dict) : ~EndsWith(x, LowerText(e.ShortForm))

\* No word can change its place in the phrase: no short form is empty, or no
\* entry is for the start or the end of a phrase only.
NoPlaceChange(dict) ==
    \/ \A e \in WordEntries(dict) \cup SuffixEntries(dict) : e.ShortForm # <<>>
    \/ \A e \in WordEntries(dict) : e.Type = "Any"

\* Every short form is at most one word: it holds no space.
NoSpaceInShortForm(dict) ==
    \A e \in WordEntries(dict) \cup SuffixEntries(dict) :
        \A i \in 1..Len(e.ShortForm) : e.ShortForm[i] # SpaceUnit

\* C7 as stated: with no short form a long form or matching a suffix rule,
\* a second Abbreviate leaves the abbreviated text unchanged.
C7_IdempotentAsStated ==
    (abPhase = "twice" /\ NoShortFormCollision(abDict)) => abText = abBefore

\* The dictionaries for which a second Abbreviate changes nothing.
NoCollision(dict) ==
    /\ NoShortFormCollision(dict)
    /\ NoSplicedCollision(dict)
    /\ NoSpaceInShortForm(dict)
    /\ NoPlaceChange(dict)

\* C7 amended: a second Abbreviate leaves the text unchanged if moreover no
\* suffix rule's short form is the ending of a long form, no short form
\* holds a space, and no short form is empty while an entry is for the
\* start or end of a phrase only.
C7_Idempotent ==
    (abPhase = "twice" /\ NoCollision(abDict)) => abText = abBefore

\* "bb" abbreviated to "b." by the suffix rule of a two-rule dictionary with
\* no collision, and left alone by the second Abbreviate.
C7_Witness ==
    /\ abPhase = "twice"
    /\ NoCollision(abDict)
    /\ RuleCount(abDict) = 2
    /\ Len(abDict.m_suffixes) = 1
    /\ abOriginal = <<98, 98>>
    /\ abText = <<98, 46>>
    /\ abText = abBefore

\* True of a text that is one word: not empty, no space.
IsOneWord(t) == t # <<>> /\ \A i \in 1..Len(t) : t[i] # SpaceUnit

\* C8: a word matching a suffix rule (and no whole-word entry) has exactly its
\* trailing ReplaceCount characters, the length of the suffix, replaced by the
\* rule's short form and the characters before them kept; a whole-word entry
\* (ReplaceCount 0) replaces the whole word; "Hauptstrasse" with the rule
\* "strasse" -> "str." becomes "Hauptstr.".
C8_SuffixSplice ==
    (abPhase = "once" /\ IsOneWord(abOriginal)) =>
        LET key == LowerText(abOriginal)
            matching == MatchingSuffixes(abDict, key)
            first == CHOOSE i \in matching : \A j \in matching : i <= j
            suffix == abDict.m_suffixes[first][1]
            rule == abDict.m_suffixes[first][2]
            kept == Len(abOriginal) - Len(suffix)
        IN  /\ (key \in DOMAIN abDict.m_abbreviations) =>
                   /\ abDict.m_abbreviations[key].ReplaceCount = 0
                   /\ abText = abDict.m_abbreviations[key].ShortForm
            /\ (key \notin DOMAIN abDict.m_abbreviations /\ matching # {}) =>
                   /\ rule.ReplaceCount = Len(suffix)
                   /\ Len(abText) = kept + Len(rule.ShortForm)
                   /\ SubSeq(abText, 1, kept) = SubSeq(abOriginal, 1, kept)
                   /\ SubSeq(abText, kept + 1, Len(abText)) = rule.ShortForm
            /\ (abOriginal = Hauptstrasse /\ matching # {}) =>
                   abText = HauptstrDot

\* "Hauptstrasse" abbreviated to "Hauptstr." by the rule "strasse" -> "str.".
C8_Witness ==
    /\ abPhase = "once"
    /\ abOriginal = Hauptstrasse
    /\ Len(abDict.m_suffixes) = 1
    /\ abDict.m_suffixes[1][1] = Strasse
    /\ abDict.m_suffixes[1][2].ReplaceCount = 7
    /\ abText = HauptstrDot

\* The whole-word entry for the lower-cased word, if there is one and its
\* type allows the word's place: Any anywhere, Start for the first word only,
\* End for the last word only.
ExactLookupSucceeds(dict, key, isFirst, isLast) ==
    /\ key \in DOMAIN dict.m_abbreviations
    /\ LET type == dict.m_abbreviations[key].Type
       IN  \/ type = "Any"
           \/ type = "Start" /\ isFirst
           \/ type = "End" /\ isLast

\* True if r is what the word becomes when it is resolved in the order of
\* C23: the exact lookup, then the suffix rules in the order they were added,
\* then nothing.
ResolvedInOrder(dict, aWord, isFirst, isLast, r) ==
    LET key == LowerText(aWord)
        exact == ExactLookupSucceeds(dict, key, isFirst, isLast)
        n == Len(dict.m_suffixes)
        Matches(i) == EndsWith(key, dict.m_suffixes[i][1])
    IN  /\ exact => r = dict.m_abbreviations[key].ShortForm
        /\ ~exact =>
               \A i \in 1..n :
                   (Matches(i) /\ \A j \in 1..(i - 1) : ~Matches(j)) =>
                       r = SubSeq(aWord, 1,
                                  Len(aWord) - Len(dict.m_suffixes[i][1]))
                               \o dict.m_suffixes[i][2].ShortForm
        /\ (~exact /\ \A i \in 1..n : ~Matches(i)) => r = aWord

\* What a word can become at all: itself, a short form, or its beginning
\* followed by a short form.
WordOutcomes(dict, aWord) ==
    {aWord}
        \cup {e.ShortForm : e \in WordEntries(dict)}
        \cup {SubSeq(aWord, 1, k) \o e.ShortForm :
                  k \in 0..Len(aWord), e \in SuffixEntries(dict)}

\* C23: each word of the phrase is resolved in a fixed order: the exact
\* lookup of the lower-cased word is used if its type permits the word's
\* place in the phrase; only if that fails are the suffix rules tried, in the
\* order they were added, the first that matches being applied; a word that
\* matches nothing is left as it is.  (Words that are deleted are left out:
\* no word is deleted unless aDeleteWords is set and a short form is empty.)
C23_ResolutionOrder ==
    (/\ abPhase = "once"
     /\ ~(abDelete /\ \E e \in WordEntries(abDict) \cup SuffixEntries(abDict) :
                          e.ShortForm = <<>>)) =>
        LET tokens == SplitTokens(abBefore, <<>>)
            n == Len(tokens)
            words == {i \in 1..n : tokens[i][1] # SpaceUnit}
            isFirst(i) == \A j \in words : i <= j
            isLast(i) == \A j \in words : j <= i
            outcome(i) ==
                IF i \in words
                THEN CHOOSE r \in WordOutcomes(abDict, tokens[i]) :
                         ResolvedInOrder(abDict, tokens[i], isFirst(i),
                                         isLast(i), r)
                ELSE tokens[i]
        IN  /\ \A i \in words :
                   \E r \in WordOutcomes(abDict, tokens[i]) :
                       ResolvedInOrder(abDict, tokens[i], isFirst(i),
                                       isLast(i), r)
            /\ abText = Concat([i \in 1..n |-> outcome(i)])

\* "a b" with the word "b" -> "b." for the start of a phrase only and, added
\* after it, the suffix rule "b" -> "a": the b is not the first word, so the
\* exact lookup fails and the suffix rule makes it "a".
C23_Witness ==
    /\ abPhase = "once"
    /\ abOriginal = <<97, 32, 98>>
    /\ <<98>> \in DOMAIN abDict.m_abbreviations
    /\ abDict.m_abbreviations[<<98>>].Type = "Start"
    /\ Len(abDict.m_suffixes) = 1
    /\ abDict.m_suffixes[1][1] = <<98>>
    /\ abText = <<97, 32, 97>>

\* "bb" with the suffix rules "b" -> "a" and then "bb" -> "b.": both match
\* and the one added first is applied.
C23_FirstSuffixWins ==
    /\ abPhase = "once"
    /\ abOriginal = <<98, 98>>
    /\ Len(abDict.m_suffixes) = 2
    /\ abDict.m_suffixes[1][1] = <<98>>
    /\ abDict.m_suffixes[2][1] = <<98, 98>>
    /\ abText = <<98, 97>>

(***************************************************************************)
(* Claims about folding.                                                   *)
(***************************************************************************)

\* True when the second iterator has been read to its end.
FoldedTwice == fdPass = 2 /\ fdPos = Len(fdText) /\ fdCode = -1

\* C9: folding is idempotent: what a second FoldingIterator with the same
\* method makes of the first one's output is that output,
\* fold(fold(s)) == fold(s), for every method and every text.
C9_FoldIdempotent == FoldedTwice => fdOut = fdFirst

(***************************************************************************)
(* Claims about conversion.                                                *)
(***************************************************************************)

\* C10 as stated: for every text of valid scalar values, the string
\* constructed from its UTF-8 form is the text, and so is the string
\* constructed from its UTF-16 form.
C10_RoundTripAsStated ==
    /\ ("from8" \in ucDone) => ucFrom8 = ucText
    /\ ("from16" \in ucDone) => ucFrom16 = ucText

\* True if the text has no U+0000.
NoNull(codes) == \A i \in 1..Len(codes) : codes[i] # 0

\* The part of a text before its first zero unit.
BeforeNull(text) ==
    LET nulls == {k \in 1..Len(text) : text[k] = 0}
        first == CHOOSE k \in nulls : \A j \in nulls : k <= j
    IN  SubSeq(text, 1, first - 1)

\* C10: for every text of valid scalar values, the string constructed from
\* its UTF-8 form, and the one constructed from its UTF-16 form, is the text
\* if the constructor is given the length or the text has no U+0000; a
\* constructor left to find the terminator gives the text before its first
\* U+0000.
C10_RoundTrip ==
    /\ ("from8" \in ucDone) =>
           ucFrom8 = IF ucLength8 # npos \/ NoNull(ucScalars) THEN ucText
                     ELSE BeforeNull(ucText)
    /\ ("from16" \in ucDone) =>
           ucFrom16 = IF ucLength16 # npos \/ NoNull(ucScalars) THEN ucText
                      ELSE BeforeNull(ucText)

\* U+10FFFF U+0800 through four UTF-8 bytes and three, and through a
\* surrogate pair and one unit, both read back to their terminators.
C10_Witness ==
    /\ ucScalars = <<1114111, 2048>>
    /\ ucText = <<56319, 57343, 2048>>
    /\ ucUtf8 = <<244, 143, 191, 191, 224, 160, 128>>
    /\ ucDone = {"utf8", "from8", "utf16", "from16"}
    /\ ucLength8 = npos
    /\ ucLength16 = npos
    /\ ucFrom8 = ucText
    /\ ucFrom16 = ucText

(***************************************************************************)
(* Claims about the compare with a method.                                 *)
(***************************************************************************)

\* C11: without the Fuzzy flag Compare(a,b,method) is the 5-way compare of
\* the two folded code-point sequences, each the output of a FoldingIterator
\* under the method; with the Fuzzy flag the ordered compare is not run and
\* the result is the fuzzy compare's; "Straße" and "strasse" compare as 0
\* under case and accent folding.
C11_CompareFolded ==
    /\ (cmState = "ordered") =>
           /\ ~HasFlag(cmMethod, FlagFuzzy)
           /\ cmResult = Compare(Folded(cmText1, cmMethod),
                                 Folded(cmText2, cmMethod))
    /\ (cmState = "fuzzy") =>
           /\ HasFlag(cmMethod, FlagFuzzy)
           /\ cmResult = FuzzyCompare(Folded(cmText1, cmMethod),
                                      Folded(cmText2, cmMethod),
                                      KMaxFuzzyDistance)
    /\ (/\ cmState = "ordered"
        /\ cmText1 = StrasseEszett
        /\ cmText2 = StrasseLower
        /\ cmMethod = FlagFoldAccents + FlagFoldCase) => cmResult = 0

\* "Straße" against "strasse" under Fold, read to the end of both: 0.
C11_Witness ==
    /\ cmState = "ordered"
    /\ cmText1 = StrasseEszett
    /\ cmText2 = StrasseLower
    /\ cmMethod = FlagFoldAccents + FlagFoldCase
    /\ cmIter1.iPos = 6
    /\ cmIter2.iPos = 7
    /\ cmResult = 0

(***************************************************************************)
(* Claims about Find.                                                      *)
(***************************************************************************)

IsPrefixOf(a, b) == Len(a) <= Len(b) /\ SubSeq(b, 1, Len(a)) = a

\* True if the text between two offsets matches the search term: with the
\* Prefix flag the folded term is a prefix of its folded form, without it
\* the two folded forms are equal.
SubstringMatches(aText, aStart, aEnd, aString, aFlags) ==
    LET folded == Folded(SubSeq(aText, aStart + 1, aEnd), aFlags)
    IN  IF HasFlag(aFlags, FlagPrefix)
        THEN IsPrefixOf(Folded(aString, aFlags), folded)
        ELSE folded = Folded(aString, aFlags)

\* C12: Find returns npos if and only if no substring matches the search
\* term under the method; otherwise the text between the start offset and
\* the end offset it returns matches; "york" in "new york city" with
\* Prefix|IgnoreWhitespace is found at the offset of "york", 4.
C12_FindMatches ==
    fnDone =>
        /\ (fnPos = npos) <=>
               ~\E i \in 0..Len(fnText) : \E j \in i..Len(fnText) :
                    SubstringMatches(fnText, i, j, fnString, fnMethod)
        /\ (fnPos # npos) =>
               /\ fnPos \in 0..Len(fnText)
               /\ fnEndPos \in fnPos..Len(fnText)
               /\ SubstringMatches(fnText, fnPos, fnEndPos, fnString, fnMethod)
        /\ (fnText = NewYorkCity /\ fnString = York) =>
               fnPos = 4 /\ fnEndPos = 8

\* "york" found in "new york city" at 4..8.
C12_Witness ==
    /\ fnDone
    /\ fnText = NewYorkCity
    /\ fnString = York
    /\ fnMethod = FlagPrefix + FlagIgnoreWhitespace
    /\ fnPos = 4
    /\ fnEndPos = 8

(***************************************************************************)
(* Claims about WildMatch.                                                 *)
(***************************************************************************)

\* True if the whole text comes from the pattern with each '*' replaced by
\* some sequence of codes, empty or not, each '?' by one code, and every
\* other character by itself.
RECURSIVE ComesFromPattern(_, _)
ComesFromPattern(aText, aWildText) ==
    IF aWildText = <<>> THEN aText = <<>>
    ELSE IF Head(aWildText) = WildStar
    THEN \E k \in 0..Len(aText) :
             ComesFromPattern(SubSeq(aText, k + 1, Len(aText)), Tail(aWildText))
    ELSE /\ aText # <<>>
         /\ Head(aWildText) = WildAny \/ Head(aWildText) = Head(aText)
         /\ ComesFromPattern(Tail(aText), Tail(aWildText))

\* C13: WildMatch is true if and only if the whole text can be produced
\* from the pattern by replacing each '*' with any sequence of code points
\* and each '?' with exactly one; "Main*Street" matches "Main North Street".
C13_WildMatch ==
    /\ (wmResult = "true") => ComesFromPattern(wmText, wmWildText)
    /\ (wmResult = "false") => ~ComesFromPattern(wmText, wmWildText)
    /\ (wmText = MainNorthStreet /\ wmWildText = MainStarStreet) =>
           wmResult # "false"

\* "Main North Street" matched by "Main*Street", the '*' having taken the
\* seven codes of " North ".
C13_Witness ==
    /\ wmResult = "true"
    /\ wmText = MainNorthStreet
    /\ wmWildText = MainStarStreet
    /\ wmStarPos = 4
    /\ wmStarTextPos = 11

(***************************************************************************)
(* Claims about the kinds of string.                                       *)
(***************************************************************************)

\* C14: in a release build Clear, Append and Set on a Text are silent
\* no-ops: the length and the borrowed units are as before the call, and
\* nothing is raised.
C14_ReadOnlyNoOp ==
    [][(/\ stKind = "Text"
        /\ stBuild = "release"
        /\ stOp' \in {"Clear", "Append", "Set"}) =>
           /\ iLength' = iLength
           /\ stMem' = stMem
           /\ Data' = Data
           /\ ~stAborted']_vars

\* A Text in a release build that holds what it held after a Set.
C14_Witness ==
    /\ stKind = "Text"
    /\ stBuild = "release"
    /\ stOp = "Set"
    /\ stArg = <<1>>
    /\ Data = <<2, 1>>
    /\ ~stAborted

\* True of the two kinds whose capacity is fixed.
FixedCapacity == stKind \in {"WritableTextView", "TextBuffer"}

\* C15: Append to a string of fixed capacity that holds L units truncates:
\* afterwards the text is the old L units followed by the first
\* min(|T|, capacity - L) units of T, the cells after the capacity are as
\* they were, and nothing is raised.
C15_AppendTruncates ==
    [][(FixedCapacity /\ stOp' = "Append") =>
           LET room == MaxWritableLength - iLength
               taken == Min(Len(stArg'), room)
           IN  /\ Data' = Data \o SubSeq(stArg', 1, taken)
               /\ iLength' = iLength + taken
               /\ Len(stMem') = Len(stMem)
               /\ CellsAfter(stMem') = CellsAfter(stMem)
               /\ ~stAborted']_vars

\* A TextBuffer<2> that held one unit and to which three were appended: it
\* holds the old unit and the first of the three.
C15_Witness ==
    /\ stKind = "TextBuffer"
    /\ iMaxLength = 2
    /\ stOp = "Append"
    /\ stArg = <<1, 1, 1>>
    /\ Data = <<2, 1>>
    /\ CellsAfter(stMem) = GuardCells
    /\ ~stAborted

\* C16: Set(T) on a string of fixed capacity leaves it with the length
\* min(|T|, capacity) and the first min(|T|, capacity) units of T, and
\* MaxWritableLength is the same before and after every operation.
C16_SetClamps ==
    [][FixedCapacity =>
           /\ MaxWritableLength' = MaxWritableLength
           /\ (stOp' = "Set") =>
                  LET taken == Min(Len(stArg'), MaxWritableLength)
                  IN  /\ iLength' = taken
                      /\ Data' = SubSeq(stArg', 1, taken)]_vars

\* A WritableTextView over two units set to a text of three: it holds the
\* first two.
C16_Witness ==
    /\ stKind = "WritableTextView"
    /\ iMaxLength = 2
    /\ MaxWritableLength = 2
    /\ stOp = "Set"
    /\ stArg = <<1, 2, 1>>
    /\ iLength = 2
    /\ Data = <<1, 2>>

\* C17: a String starts with its text in the inline buffer of 32 units;
\* once its text is in a separate allocation no Set, Append or Clear puts
\* it back in the inline buffer, however short the text becomes.
C17_NeverBackInline ==
    /\ (stKind = "String") =>
           ~stHeap /\ iReserved = KOwnTextLength /\ iLength = 0
    /\ [][(stKind = "String" /\ stHeap) =>
              stHeap' /\ iReserved' > KOwnTextLength]_vars

\* A String whose text is in a separate allocation and has been cleared.
C17_Witness ==
    /\ stKind = "String"
    /\ stHeap
    /\ stOp = "Clear"
    /\ iLength = 0
    /\ iReserved > KOwnTextLength

(***************************************************************************)
(* Claims about StringMatchMethod.                                         *)
(***************************************************************************)

\* C18 as stated: after construction no operation of the public interface
\* changes the flags the object holds.
C18_NeverMutated ==
    (mmOp \notin {"StringMatchMethod", "FromFlags"}) => m_flags = mmBefore

\* C18: Flags, &, MayIgnoreCharacters, == and != leave the flags the object
\* holds as they were; += sets the flag's bits in the object itself and -=
\* clears them, each without effect if the bits are already so, and each
\* returns a copy of the changed object.
C18_MutatedByAssignOnly ==
    /\ (mmOp \in {"Flags", "&", "=="}) => m_flags = mmBefore
    /\ (mmOp = "+=") =>
           /\ \A f \in MethodFlags \ {0} :
                  HasFlag(m_flags, f) <=>
                      (HasFlag(mmBefore, f) \/ f = mmArg)
           /\ mmReturned = m_flags
    /\ (mmOp = "-=") =>
           /\ \A f \in MethodFlags \ {0} :
                  HasFlag(m_flags, f) <=>
                      (HasFlag(mmBefore, f) /\ f # mmArg)
           /\ mmReturned = m_flags

\* A method holding FoldAccents to which += FoldCase gave FoldCase as well.
C18_Witness ==
    /\ mmOp = "+="
    /\ mmArg = FlagFoldCase
    /\ mmBefore = FlagFoldAccents
    /\ m_flags = FlagFoldAccents + FlagFoldCase
    /\ mmReturned = m_flags

\* C19: the flags are always a 6-bit pattern: FromFlags(x).Flags() is
\* x mod 64, Flags() is in 0..63 after any constructions, += and -=, and
\* two methods are equal exactly when their Flags() are.
C19_SixBits ==
    /\ m_flags \in 0..63
    /\ (mmOp \in {"FromFlags", "StringMatchMethod", "+=", "-=", "Flags"}) =>
           mmReturned \in 0..63
    /\ (mmOp = "FromFlags") => mmReturned = mmArg % 64
    /\ (mmOp = "Flags") => mmReturned = m_flags
    /\ (mmOp = "==") => (mmReturned <=> (m_flags = mmArg % 64))

\* FromFlags(65541), whose Flags() is 5.
C19_Witness ==
    /\ mmOp = "FromFlags"
    /\ mmArg = 65536 + 5
    /\ m_flags = 5
    /\ mmReturned = 5

(***************************************************************************)
(* Claims about FoldingIterator::Back.                                     *)
(***************************************************************************)

\* C20: Back on a FoldingIterator fails with KErrorUnimplemented in every
\* state of the iterator, new, with part of an expansion still buffered, or
\* at the end of data, and a call that fails so leaves the inner iterator
\* where it was and the buffered case variant as it was.
C20_BackUnimplemented ==
    /\ []((fdPass \in {1, 2}) => ENABLED FoldingBack)
    /\ [][(fdResult' = "KErrorUnimplemented") =>
              /\ fdPos' = fdPos
              /\ iCaseVariant' = iCaseVariant
              /\ iCaseVariantLength' = iCaseVariantLength
              /\ iCaseVariantIndex' = iCaseVariantIndex
              /\ fdCode' = fdCode
              /\ fdOut' = fdOut]_vars

\* Back called with the second code of an expansion still buffered: the i
\* of U+0130 has been given and the U+0307 has not.
C20_Witness ==
    /\ fdResult = "KErrorUnimplemented"
    /\ fdText = <<304>>
    /\ fdPos = 1
    /\ fdOut = <<105>>
    /\ iCaseVariant = <<105, 775>>
    /\ iCaseVariantIndex = 1
    /\ iCaseVariantLength = 2

(***************************************************************************)
(* Claims about FoldingIterator::Next without folding.                     *)
(***************************************************************************)

\* The code points of aCodes that the method does not ignore, in order.
Kept(aCodes, aFlags) ==
    SelectSeq(aCodes, LAMBDA c : ~Ignore(aFlags, c))

\* C21: for a method with neither FoldAccents nor FoldCase the codes given
\* by successive calls of Next are the inner iterator's codes without the
\* ignored ones, in the same order, and then end-of-data with the code set
\* to -1; with the Exact method they are the inner iterator's codes.
C21_FilterOnly ==
    (fdPass \in {1, 2} /\ ~iFoldAccents /\ ~iFoldCase) =>
        /\ fdOut = Kept(SubSeq(fdText, 1, fdPos), fdMethod)
        /\ (fdResult = "KErrorEndOfData") =>
               /\ fdCode = -1
               /\ fdOut = Kept(fdText, fdMethod)
        /\ (fdResult = "KErrorNone") =>
               /\ fdOut # <<>>
               /\ fdCode = fdOut[Len(fdOut)]
               /\ fdCode = fdText[fdPos]
        /\ (fdMethod = 0) => fdOut = SubSeq(fdText, 1, fdPos)

\* " S" read to its end with IgnoreSymbols and IgnoreWhitespace: only the S
\* is given.
C21_Witness ==
    /\ fdPass = 1
    /\ fdMethod = FlagIgnoreSymbols + FlagIgnoreWhitespace
    /\ fdText = <<32, 83>>
    /\ fdResult = "KErrorEndOfData"
    /\ fdCode = -1
    /\ fdOut = <<83>>

(***************************************************************************)
(* Claims about the file-position width of an InputStream.                 *)
(***************************************************************************)

\* C22: the number of bytes of a file position is always 4 or 5: it is 4 in
\* a new InputStream, SetFilePosBytes with any other number throws
\* KErrorInvalidArgument and leaves the number as it was, and ReadFilePos
\* reads 4 bytes (32 bits) when the number is 4 and 5 bytes (40 bits)
\* otherwise.
C22_FilePosBytes ==
    /\ m_file_pos_bytes \in {4, 5}
    /\ (isOp = "InputStream") => m_file_pos_bytes = 4
    /\ (isOp = "SetFilePosBytes" /\ isArg \notin {4, 5}) =>
           /\ isThrown = "KErrorInvalidArgument"
           /\ m_file_pos_bytes = isBefore
    /\ (isOp = "FilePosBytes") => isReturned \in {4, 5}
    /\ (isOp = "ReadFilePos" /\ isThrown = "none") =>
           8 * Len(isValue) = (IF m_file_pos_bytes = 4 THEN 32 ELSE 40)

\* SetFilePosBytes(6) refused on a stream that had been set to 5 bytes.
C22_Witness ==
    /\ isOp = "SetFilePosBytes"
    /\ isArg = 6
    /\ isThrown = "KErrorInvalidArgument"
    /\ isBefore = 5
    /\ m_file_pos_bytes = 5

(***************************************************************************)
(* Claims about ExpressionValue::Compare.                                  *)
(***************************************************************************)

\* True if the two strings match under the method: with the Fuzzy flag,
\* if their folded forms are within the largest fuzzy distance of each
\* other; without it, if their folded forms are the same.
MatchUnderMethod(a, b, aFlags) ==
    IF HasFlag(aFlags, FlagFuzzy)
    THEN FuzzyMatch(Folded(a, aFlags), Folded(b, aFlags), KMaxFuzzyDistance)
    ELSE Folded(a, aFlags) = Folded(b, aFlags)

\* C24: ExpressionValue::Compare on two string values is true exactly when
\* the two strings match under the method, case-folded, accent-folded or
\* fuzzy; for values that are not both strings it is numeric equality, two
\* undefined (NAN) values counting as equal.
C24_CompareMatches ==
    exDone =>
        IF exThis.iString # <<>> /\ exOther.iString # <<>>
        THEN exResult <=> MatchUnderMethod(exThis.iString, exOther.iString,
                                           exMethod)
        ELSE exResult <=>
                 \/ /\ ~exThis.iNumber.nan
                    /\ ~exOther.iNumber.nan
                    /\ exThis.iNumber.value = exOther.iNumber.value
                 \/ exThis.iNumber.nan /\ exOther.iNumber.nan

\* C24 without the Fuzzy flag, and for values that are not both strings.
C24_CompareMatchesUnlessFuzzy ==
    (exDone /\ ~(/\ HasFlag(exMethod, FlagFuzzy)
                 /\ exThis.iString # <<>>
                 /\ exOther.iString # <<>>)) => C24_CompareMatches

\* With the Fuzzy flag the call is true exactly when the folded strings are
\* the same.
C24_FuzzyIsExact ==
    (/\ exDone
     /\ HasFlag(exMethod, FlagFuzzy)
     /\ exThis.iString # <<>>
     /\ exOther.iString # <<>>) =>
        (exResult <=> (Folded(exThis.iString, exMethod)
                           = Folded(exOther.iString, exMethod)))

(***************************************************************************)
(* Claims about the compare overloads and the relational operators.        *)
(***************************************************************************)

HasNoZero(aText) == \A i \in 1..Len(aText) : aText[i] # 0

\* The calls of CoCalls that compare.
CompareCalls ==
    {"Compare(Text)", "Compare(text)", "Compare(text,length)",
     "Compare(text,npos)"}

\* C25: for every string and every text with no zero unit, Compare of the
\* null-terminated text, Compare of the text with its length, Compare of the
\* text with npos and Compare of a Text of it all return the same value,
\* one of -2, -1, 0, 1, 2.
C25_OverloadsAgree ==
    HasNoZero(coText) =>
        \A c \in CompareCalls \cap DOMAIN coResult :
            /\ coResult[c] \in {-2, -1, 0, 1, 2}
            /\ \A d \in CompareCalls \cap DOMAIN coResult :
                   coResult[c] = coResult[d]

\* The four compares of <<0, 1>> with the text <<32768>> made: the string's
\* zero unit is less than the text's first unit, and all four return -2.
C25_Witness ==
    /\ coThis = <<0, 1>>
    /\ coText = <<32768>>
    /\ CompareCalls \subseteq DOMAIN coResult
    /\ \A c \in CompareCalls : coResult[c] = -2

(***************************************************************************)
(* Claims about FoldingIterator::Next with FoldCase.                       *)
(***************************************************************************)

\* The complete lower-case form of a kept code point under the method:
\* the accent is stripped first if FoldAccents is set.
Expansion(aCode, aFlags) ==
    GetLowerCase(IF HasFlag(aFlags, FlagFoldAccents) THEN AccentStripped(aCode)
                 ELSE aCode)

\* The expansions of the code points of aCodes that are not ignored, the
\* ignore test being made on the code points as they are in aCodes.
Expansions(aCodes, aFlags) ==
    LET kept == Kept(aCodes, aFlags)
    IN  [k \in 1..Len(kept) |-> Expansion(kept[k], aFlags)]

\* True of a step that is a call of Next.
IsNextStep ==
    /\ fdPass' = fdPass
    /\ fdResult' \in {"KErrorNone", "KErrorEndOfData"}

\* C26: with FoldCase each kept code point is given as its complete
\* lower-case form, one code point for each call of Next and in order (the
\* accent stripped before the case is folded, the ignore test made on the
\* original code point); while part of a form is buffered Next gives the
\* next buffered code point and does not move the inner iterator; and
\* end-of-data comes only when the last form has been given in full.
C26_FullExpansion ==
    /\ []((fdPass \in {1, 2} /\ iFoldCase) =>
            LET forms == Expansions(SubSeq(fdText, 1, fdPos), fdMethod)
                m == Len(forms)
            IN  /\ (m = 0) => fdOut = <<>>
                /\ (m > 0) =>
                       /\ iCaseVariantLength = Len(forms[m])
                       /\ iCaseVariantIndex \in 1..iCaseVariantLength
                       /\ fdOut = Flatten(forms, m - 1)
                                      \o SubSeq(forms[m], 1, iCaseVariantIndex)
                /\ (fdResult = "KErrorEndOfData") =>
                       /\ iCaseVariantIndex = iCaseVariantLength
                       /\ fdOut = Flatten(Expansions(fdText, fdMethod),
                                       Len(Expansions(fdText, fdMethod))))
    /\ [][(/\ iFoldCase
           /\ iCaseVariantIndex < iCaseVariantLength
           /\ IsNextStep) =>
              /\ fdResult' = "KErrorNone"
              /\ fdCode' = iCaseVariant[iCaseVariantIndex + 1]
              /\ fdOut' = Append(fdOut, fdCode')
              /\ fdPos' = fdPos]_vars

\* U+0130 then S under FoldCase and FoldAccents: the accent is stripped to
\* I, whose lower-case form is the single i, and S gives s; the end of data
\* has been reached.
C26_WitnessStripped ==
    /\ fdPass = 1
    /\ fdMethod = FlagFoldAccents + FlagFoldCase
    /\ fdText = <<304, 83>>
    /\ fdResult = "KErrorEndOfData"
    /\ fdOut = <<105, 115>>

\* U+0130 then S under FoldCase alone, read to the end: i, U+0307, s.  The
\* U+0307 came from the buffer, and end-of-data after the s.
C26_Witness ==
    /\ fdPass = 1
    /\ fdMethod = FlagFoldCase
    /\ fdText = <<304, 83>>
    /\ fdResult = "KErrorEndOfData"
    /\ fdOut = <<105, 775, 115>>

(***************************************************************************)
(* Claims about the equality and relational operators.                     *)
(***************************************************************************)

\* C27: the operators agree with Compare: s == other exactly when
\* Compare is 0; exactly one of s < other, s == other and s > other holds,
\* and <= and >= are the negations of > and <; a proper prefix is less
\* than its extension; and s == text, the text null-terminated and the
\* strings without zero units, exactly when Compare of the null-terminated
\* text is 0.
C27_OperatorsAgree ==
    LET made == DOMAIN coResult
    IN  /\ ({"==", "Compare(Text)"} \subseteq made /\ HasNoZero(coText)) =>
               (coResult["=="] <=> (coResult["Compare(Text)"] = 0))
        /\ ("==" \in made) =>
               (coResult["=="] <=> (Compare(coThis, coText) = 0))
        /\ ({"==", "relational"} \subseteq made) =>
               LET r == coResult["relational"]
               IN  /\ Cardinality({x \in {"lt", "eq", "gt"} :
                                      \/ x = "lt" /\ r.lt
                                      \/ x = "eq" /\ coResult["=="]
                                      \/ x = "gt" /\ r.gt}) = 1
                   /\ r.le <=> ~r.gt
                   /\ r.ge <=> ~r.lt
        /\ ("relational" \in made) =>
               /\ IsProperPrefix(coThis, coText) => coResult["relational"].lt
               /\ IsProperPrefix(coText, coThis) => coResult["relational"].gt
        /\ ({"==(text)", "Compare(text)"} \subseteq made
               /\ HasNoZero(coThis) /\ HasNoZero(coText)) =>
               (coResult["==(text)"] <=> (coResult["Compare(text)"] = 0))

\* <<1>> against <<1, 32768>>, a proper prefix against its extension: not
\* equal, less, and not greater.
C27_Witness ==
    /\ coThis = <<1>>
    /\ coText = <<1, 32768>>
    /\ {"==", "==(text)", "Compare(text)", "relational"} \subseteq DOMAIN coResult
    /\ coResult["=="] = FALSE
    /\ coResult["==(text)"] = FALSE
    /\ coResult["Compare(text)"] = -1
    /\ coResult["relational"].lt
    /\ ~coResult["relational"].gt

(***************************************************************************)
(* Claims about the length of the fixed-capacity and read-only strings.    *)
(***************************************************************************)

\* C28: a WritableTextView and a TextBuffer never hold more than
\* MaxWritableLength() units: as constructed, a TextBuffer constructed
\* from an 8-bit string longer than its capacity keeping the first units
\* only, and after every Set, Append, Clear and SetLengthToZero.
C28_LengthWithinCapacity ==
    FixedCapacity =>
        /\ iLength <= MaxWritableLength
        /\ (stKind = "TextBuffer" /\ stOp = "none") =>
               /\ iLength = Min(Len(stArg), iMaxLength)
               /\ Data = SubSeq(stArg, 1, iLength)

\* A TextBuffer<1> that was full and to which a unit was appended: it holds
\* its one unit still.
C28_Witness ==
    /\ stKind = "TextBuffer"
    /\ iMaxLength = 1
    /\ stOp = "Append"
    /\ stArg = <<2>>
    /\ iLength = 1
    /\ MaxWritableLength = 1
    /\ Data = <<1>>

\* C29: the length of a Text never changes after construction in a release
\* build, whatever function of MString is called, SetLengthToZero included.
C29_TextLengthFixed ==
    [][(stKind = "Text" /\ stBuild = "release") => iLength' = iLength]_vars

\* Every call but SetLengthToZero leaves the length of a Text as it was.
C29_FixedButForSetLengthToZero ==
    [][(/\ stKind = "Text"
        /\ stBuild = "release"
        /\ stOp' # "SetLengthToZero") => iLength' = iLength]_vars

(***************************************************************************)
(* Claims about VariableDictionary.                                        *)
(***************************************************************************)

\* What Find gives for a name in a dictionary: whether it is found, and the
\* string if it is.
Lookup(aDictionary, aName) ==
    IF aName \in DOMAIN aDictionary
    THEN <<TRUE, aDictionary[aName]>>
    ELSE <<FALSE, <<>> >>

\* C30: the dictionary never holds an empty value; Find of a name succeeds
\* and gives v exactly when the latest Set of that name had the value v and
\* v is not empty, and fails when the name was never set or its latest Set
\* had an empty value; a Set of one name changes what Find gives for no
\* other name; and Find by index always fails.
C30_LatestSetFound ==
    /\ [](/\ \A k \in DOMAIN iDictionary : iDictionary[k] # <<>>
          /\ \A aName \in VdNames :
                Lookup(iDictionary, aName) =
                    IF aName \in DOMAIN vdLatest /\ vdLatest[aName] # <<>>
                    THEN <<TRUE, vdLatest[aName]>>
                    ELSE <<FALSE, <<>> >>
          /\ (vdOp = "Find") =>
                /\ vdFound <=> (/\ vdArg \in DOMAIN vdLatest
                                /\ vdLatest[vdArg] # <<>>)
                /\ vdFound => vdValue.iString = vdLatest[vdArg]
          /\ (vdOp = "Find(index)") => ~vdFound)
    /\ [][(vdOp' = "Set") =>
              \A aName \in VdNames \ {vdArg'} :
                  Lookup(iDictionary', aName) = Lookup(iDictionary, aName)]_vars

\* "a" was set to "E" and then to the empty string, "aa" was set to "e":
\* Find of "a" fails and "aa" is still there.
C30_Witness ==
    /\ vdOp = "Find"
    /\ vdArg = <<97>>
    /\ ~vdFound
    /\ <<97>> \in DOMAIN vdLatest
    /\ vdLatest[<<97>>] = <<>>
    /\ DOMAIN iDictionary = {<<97, 97>>}
    /\ iDictionary[<<97, 97>>] = <<101>>
    /\ vdValue = StringValue(<<69>>)

====
